---- MODULE Spec2Model ----
(***************************************************************************)
(* Box framework for structured grids: Box index algebra, CudaFab strided  *)
(* addressing and the SlabFab moving-window cache (CudaFab.H, Box.H),      *)
(* BaseFab (BaseFab.H) and BoxIterator (BoxIterator.H).                    *)
(*                                                                         *)
(* Spec     : the thread block executes SlabFab::define and then           *)
(*            shift(a_i, a_vecThrLS) calls as whole handlers (all threads, *)
(*            up to the handler's return), CH_assert enabled, over all     *)
(*            define arguments of the bounds.                              *)
(* SpecRot  : the same with shift(a_i) too, one component, whole preload.  *)
(* SpecLin  : Box::linToVec, then Box::vecToLin0, applied to boxes and     *)
(*            linear indices drawn from bounded sets.                      *)
(* SpecThr  : the same handlers executed thread by thread, with            *)
(*            __syncthreads() as the only synchronisation.                 *)
(* SpecBox  : a Box is constructed and grow, adjBox or operator&= is       *)
(*            applied to it.                                               *)
(* SpecFab  : a CudaFab is built for a BaseFab and shifted, or asked for   *)
(*            its dataPtr.                                                 *)
(* SpecCopy : CudaFab::define(a_cudaFab, a_idxThr0, a_numThr) thread by    *)
(*            thread, then the barrier.                                    *)
(* SpecHost : one operation on a BaseFab: operator(), copy, sizeBytes, or  *)
(*            linearOut followed by linearIn.                              *)
(* SpecLife : BaseFab objects are constructed, defined, moved, destroyed.  *)
(* SpecIter : a BoxIterator is incremented, assigned and added to.         *)
(***************************************************************************)
EXTENDS Integers, Sequences, FiniteSets, TLC

(***************************************************************************)
(* Bounds of the model                                                     *)
(***************************************************************************)
MxSz == 3               \* template parameter MxSz (capacity in slabs)
MaxTan == 2             \* largest extent of a_box tangential to a_nrmDir
MaxNcomp == 2           \* largest a_ncomp
MaxCompBeg == 1         \* largest a_compBegSrc
MaxShift == 4           \* largest |a_i| passed to shift
SrcPad == 2             \* cells of source data around the first window
LinExt == 2             \* largest extent of the boxes of SpecLin, SpecBox, SpecFab
MaxCells == 2           \* largest |a_i| of grow and shift, |a_ncell| of adjBox
NumThr == 3             \* threads of the block of SpecThr
MaxCalls == 3           \* calls each thread makes in SpecThr, define included
MaxThrShift == 2        \* largest |a_i| of a shift of SpecThr
NumFabs == 2            \* BaseFab objects of SpecLife
MaxAllocs == 3          \* new[] calls of a run of SpecLife

(***************************************************************************)
(* IntVect and integer helpers                                             *)
(***************************************************************************)
g_SpaceDim == 3
Dirs == 0..(g_SpaceDim - 1)

IV(a, b, c) == (0 :> a) @@ (1 :> b) @@ (2 :> c)

abs(x) == IF x < 0 THEN -x ELSE x

\* C++ integer division and remainder (truncation toward zero), b > 0
cdiv(a, b) == IF a >= 0 THEN a \div b ELSE -((-a) \div b)
cmod(a, b) == a - b * cdiv(a, b)

product(iv) == iv[0] * iv[1] * iv[2]

IVle(a, b) == \A d \in Dirs : a[d] <= b[d]

(***************************************************************************)
(* Box                                                                     *)
(***************************************************************************)
MkBox(lo, hi) == [lo |-> lo, hi |-> hi]

dimensions(box) == [d \in Dirs |-> box.hi[d] - box.lo[d] + 1]

size(box) == (box.hi[0] - box.lo[0] + 1)
             * (box.hi[1] - box.lo[1] + 1)
             * (box.hi[2] - box.lo[2] + 1)

contains(box, iv) == IVle(box.lo, iv) /\ IVle(iv, box.hi)

\* the points a BoxIterator over the box visits
BoxPointsOf(box) ==
  {IV(x, y, z) : x \in box.lo[0]..box.hi[0], y \in box.lo[1]..box.hi[1],
                 z \in box.lo[2]..box.hi[2]}

BoxShift(box, a_i, a_dir) ==
  [lo |-> [box.lo EXCEPT ![a_dir] = @ + a_i],
   hi |-> [box.hi EXCEPT ![a_dir] = @ + a_i]]

getStride(box) ==
  LET s0 == 1
      s1 == s0 * (box.hi[0] - box.lo[0] + 1)
      s2 == s1 * (box.hi[1] - box.lo[1] + 1)
  IN  IV(s0, s1, s2)

vecToLin0(a_vec, a_stride) ==
  a_vec[0] + a_vec[1] * a_stride[1] + a_vec[2] * a_stride[2]

\* variant: the low corner is not negated
getOffset_noNeg(box, a_stride) ==
  vecToLin0(box.lo, a_stride)

getOffset(box, a_stride) ==
  vecToLin0([d \in Dirs |-> -box.lo[d]], a_stride)

\* variant: the remainder is not reduced after direction 2
linToVec_noSub(box, a_lin, a_stride) ==
  LET tmp2 == cdiv(a_lin, a_stride[2])
      tmp1 == cdiv(a_lin, a_stride[1])
      lin0 == a_lin - tmp1 * a_stride[1]
  IN  IV(lin0 + box.lo[0], tmp1 + box.lo[1], tmp2 + box.lo[2])

\* D_INVTERM: direction 2 first, then 1, then 0
linToVec(box, a_lin, a_stride) ==
  LET tmp2 == cdiv(a_lin, a_stride[2])
      lin1 == a_lin - tmp2 * a_stride[2]
      tmp1 == cdiv(lin1, a_stride[1])
      lin0 == lin1 - tmp1 * a_stride[1]
  IN  IV(lin0 + box.lo[0], tmp1 + box.lo[1], tmp2 + box.lo[2])

\* linToVec(a_lin, a_vec): strides computed on the fly
linToVecBox(box, a_lin) == linToVec(box, a_lin, getStride(box))

\* IntVect::max, IntVect::min
IVmax(a, b) == [d \in Dirs |-> IF a[d] >= b[d] THEN a[d] ELSE b[d]]
IVmin(a, b) == [d \in Dirs |-> IF a[d] <= b[d] THEN a[d] ELSE b[d]]

\* Box(): members set in a host build, left as they are (u) under __CUDACC__
DefaultBox(build, u) ==
  IF build = "host" THEN [lo |-> IV(1, 1, 1), hi |-> IV(0, 0, 0)] ELSE u

\* variant: the high corner moved by |a_i|
grow_absHi(box, a_i) ==
  [lo |-> [d \in Dirs |-> box.lo[d] - a_i],
   hi |-> [d \in Dirs |-> box.hi[d] + (IF a_i < 0 THEN -a_i ELSE a_i)]]

\* Box::grow(a_i)
grow(box, a_i) ==
  [lo |-> [d \in Dirs |-> box.lo[d] - a_i * 1],
   hi |-> [d \in Dirs |-> box.hi[d] + a_i * 1]]

\* Box::grow(a_i, a_dir)
growDir(box, a_i, a_dir) ==
  [lo |-> [box.lo EXCEPT ![a_dir] = @ - a_i],
   hi |-> [box.hi EXCEPT ![a_dir] = @ + a_i]]

\* Box::adjBox(a_ncell, a_dir, a_side)
adjBox(box, a_ncell, a_dir, a_side) ==
  IF a_ncell > 0 /\ a_side > 0
  THEN [lo |-> [box.lo EXCEPT ![a_dir] = (box.hi[a_dir] + a_ncell) - a_ncell + 1],
        hi |-> [box.hi EXCEPT ![a_dir] = @ + a_ncell]]
  ELSE IF a_ncell > 0 /\ a_side <= 0
  THEN [lo |-> [box.lo EXCEPT ![a_dir] = @ - a_ncell],
        hi |-> [box.hi EXCEPT ![a_dir] = (box.lo[a_dir] - a_ncell) + a_ncell - 1]]
  ELSE IF a_ncell < 0 /\ a_side > 0
  THEN [lo |-> [box.lo EXCEPT ![a_dir] = box.hi[a_dir] + a_ncell + 1],
        hi |-> box.hi]
  ELSE IF a_ncell < 0 /\ a_side <= 0
  THEN [lo |-> box.lo,
        hi |-> [box.hi EXCEPT ![a_dir] = box.lo[a_dir] - a_ncell - 1]]
  ELSE box

\* variant: the high corner is the larger one
BoxAndEq_maxHi(box, a_box) ==
  [lo |-> IVmax(box.lo, a_box.lo), hi |-> IVmax(box.hi, a_box.hi)]

\* Box::operator&=
BoxAndEq(box, a_box) ==
  [lo |-> IVmax(box.lo, a_box.lo), hi |-> IVmin(box.hi, a_box.hi)]

isEmpty(box) ==
  box.hi[0] < box.lo[0] \/ box.hi[1] < box.lo[1] \/ box.hi[2] < box.lo[2]

(***************************************************************************)
(* CudaFab: strides, size and strided addressing.  Addresses are element   *)
(* offsets from the start of the buffer the fab aliases.                   *)
(***************************************************************************)
\* variant: the stride of direction 2 from the extent of direction 2
setStride_ext2(box) ==
  LET s0 == 1
      s1 == s0 * (box.hi[0] - box.lo[0] + 1)
      s2 == s1 * (box.hi[2] - box.lo[2] + 1)
  IN  [m_stride |-> IV(s0, s1, s2),
       m_size   |-> s2 * (box.hi[2] - box.lo[2] + 1)]

setStride(box) ==
  LET s0 == 1
      s1 == s0 * (box.hi[0] - box.lo[0] + 1)
      s2 == s1 * (box.hi[1] - box.lo[1] + 1)
  IN  [m_stride |-> IV(s0, s1, s2),
       m_size   |-> s2 * (box.hi[2] - box.lo[2] + 1)]

CudaIndex(a_iv, m_stride) ==
  a_iv[0] + a_iv[1] * m_stride[1] + a_iv[2] * m_stride[2]

\* CudaFab(a_alias, a_box, a_ncomp) and define(a_alias, a_box, a_ncomp)
CudaFabDefine(a_alias, a_box, a_ncomp) ==
  [m_box    |-> a_box,
   m_stride |-> setStride(a_box).m_stride,
   m_ncomp  |-> a_ncomp,
   m_size   |-> setStride(a_box).m_size,
   m_data   |-> a_alias + getOffset(a_box, setStride(a_box).m_stride)]

\* CudaFab(a_baseFab) and define(a_baseFab); device is m_dataSymbol.device
CudaFabDefineData(a_baseFab) ==
  [m_box    |-> a_baseFab.m_box,
   m_stride |-> a_baseFab.m_stride,
   m_ncomp  |-> a_baseFab.m_ncomp,
   m_size   |-> a_baseFab.m_size,
   m_data   |-> a_baseFab.device
                  + getOffset(a_baseFab.m_box, a_baseFab.m_stride)]

\* the element operator()(a_iv, a_icomp) refers to, as an address
CudaFabAt(f, a_iv, a_icomp) ==
  f.m_data + (a_icomp * f.m_size + CudaIndex(a_iv, f.m_stride))

\* CudaFab::dataPtr(a_icomp)
CudaFabDataPtr(f, a_icomp) == f.m_data

\* variant: the offset of the shifted box is not added
CudaFabShift_noAdd(f, a_i, a_dir) ==
  [f EXCEPT !.m_box  = BoxShift(f.m_box, a_i, a_dir),
            !.m_data = f.m_data - getOffset(f.m_box, f.m_stride)]

\* CudaFab::shift
CudaFabShift(f, a_i, a_dir) ==
  LET data0 == f.m_data - getOffset(f.m_box, f.m_stride)
      box1  == BoxShift(f.m_box, a_i, a_dir)
  IN  [f EXCEPT !.m_box  = box1,
                !.m_data = data0 + getOffset(box1, f.m_stride)]

(***************************************************************************)
(* BaseFab: the array on the host a CudaFab is built for.  Its strides and *)
(* size are set in BaseFab::setStride: direction 0 varies fastest, the     *)
(* stride of a direction is the stride of the one before times its extent, *)
(* the size is the size of the box.                                        *)
(***************************************************************************)
BaseFabData(a_box, a_ncomp, a_device) ==
  LET e == dimensions(a_box)
  IN  [m_box    |-> a_box,
       m_stride |-> IV(1, e[0], e[0] * e[1]),
       m_ncomp  |-> a_ncomp,
       m_size   |-> size(a_box),
       device   |-> a_device]

\* variant: the point is not taken relative to the low corner
BaseFabIndex_noLo(bf, a_iv) ==
  a_iv[0] * bf.m_stride[0] + a_iv[1] * bf.m_stride[1]
    + a_iv[2] * bf.m_stride[2]

\* BaseFab::index
BaseFabIndex(bf, a_iv) ==
  LET r == [d \in Dirs |-> a_iv[d] - bf.m_box.lo[d]]
  IN  r[0] * bf.m_stride[0] + r[1] * bf.m_stride[1] + r[2] * bf.m_stride[2]

\* the element BaseFab::operator()(a_iv, a_icomp) refers to, from m_data
BaseFabAt(bf, a_iv, a_icomp) == a_icomp * bf.m_size + BaseFabIndex(bf, a_iv)

(***************************************************************************)
(* The source CudaFab m_src points to: SrcNcomp components over SrcBox,    *)
(* built by CudaFab(a_alias, a_box, a_ncomp).  Element k of its buffer    *)
(* holds the value SrcElem(k); the source is never written.                *)
(***************************************************************************)
BaseLo == IV(1, -1, 2)

SrcNcomp == MaxNcomp + MaxCompBeg

SrcBox == MkBox([d \in Dirs |-> BaseLo[d] - SrcPad],
                [d \in Dirs |-> BaseLo[d] + MxSz + MaxTan + SrcPad - 2])

SrcFab == [m_box    |-> SrcBox,
           m_ncomp  |-> SrcNcomp,
           m_stride |-> setStride(SrcBox).m_stride,
           m_size   |-> setStride(SrcBox).m_size,
           m_data   |-> getOffset(SrcBox, setStride(SrcBox).m_stride)]

SrcElem(k) == 1000 + k

\* CudaFab::operator()(a_iv, a_icomp) on the source
SrcAt(a_iv, a_icomp) ==
  SrcElem(SrcFab.m_data + a_icomp * SrcFab.m_size
          + CudaIndex(a_iv, SrcFab.m_stride))

(***************************************************************************)
(* State                                                                   *)
(***************************************************************************)
VARIABLES
  blockDim,   \* blockDim.x, number of threads of the block
  fab,        \* the SlabFab object (in shared memory)
  mem,        \* the memory a_alias points to, by element offset
  vecLS,      \* a_vecLS / a_vecThrLS of every thread (thread-private)
  status,     \* "fresh" (not defined), "defined", "halted" (CH_assert failed)
  preload,    \* <<a_locNDBeg, a_locNDEnd>> define was called with
  lastOp,     \* the handler that ran last and its arguments
  wlog,       \* the element writes of the loadSlab calls of the last handler
  b_box,      \* SpecLin: the Box
  b_lin,      \* SpecLin: the linear index a_lin
  b_vec,      \* SpecLin: a_vec, the result of linToVec
  b_back,     \* SpecLin: the result of vecToLin0 on b_vec
  b_pc,       \* SpecLin: "in", "vec" (linToVec done), "lin" (vecToLin0 done)
  calls,      \* SpecThr: the calls on the SlabFab so far, in program order
  defArg,     \* SpecThr: the arguments of the define call
  t_ci,       \* SpecThr: per thread, the number of calls it has entered
  t_pc,       \* SpecThr: per thread, its place in the code of its call
  t_nSlab,    \* SpecThr: per thread, the local nSlab of shift
  acc,        \* SpecThr: accesses to m_box and m_pTable since the last
              \* __syncthreads()
  bx,         \* SpecBox: a Box
  bx_op,      \* SpecBox: the constructor or member function last applied
  cf,         \* SpecFab: a CudaFab
  cf_op,      \* SpecFab: the BaseFab it is built for and the function last
              \* applied
  cw,         \* SpecCopy: the CudaFab written to, as 32-bit words
  cw_arg,     \* SpecCopy: blockDim.x and the arguments of define
  cw_pc,      \* SpecCopy: per thread, "define", "done" or "halted"
  cw_wr,      \* SpecCopy: per word, the threads that have stored to it
  ha,         \* SpecHost: the BaseFabs and the linear buffer
  ha_op,      \* SpecHost: the member function last applied, its arguments
  lf,         \* SpecLife: the BaseFab objects and the heap
  lf_op,      \* SpecLife: the function last applied
  it,         \* SpecIter: the BoxIterator
  it_op       \* SpecIter: the function last applied, the points visited

slabVars == <<blockDim, fab, mem, vecLS, status, preload, lastOp, wlog>>
linVars == <<b_box, b_lin, b_vec, b_back, b_pc>>
thrVars == <<calls, defArg, t_ci, t_pc, t_nSlab, acc>>
boxVars == <<bx, bx_op>>
fabVars == <<cf, cf_op>>
copyVars == <<cw, cw_arg, cw_pc, cw_wr>>
hostVars == <<ha, ha_op>>
lifeVars == <<lf, lf_op>>
iterVars == <<it, it_op>>
moreVars == <<ha, ha_op, lf, lf_op, it, it_op>>
auxVars == <<bx, bx_op, cf, cf_op, cw, cw_arg, cw_pc, cw_wr,
             ha, ha_op, lf, lf_op, it, it_op>>
vars == <<blockDim, fab, mem, vecLS, status, preload, lastOp, wlog,
          b_box, b_lin, b_vec, b_back, b_pc,
          calls, defArg, t_ci, t_pc, t_nSlab, acc,
          bx, bx_op, cf, cf_op, cw, cw_arg, cw_pc, cw_wr,
          ha, ha_op, lf, lf_op, it, it_op>>

Threads == 0..(blockDim - 1)

MemSize == MxSz * MaxTan * MaxTan * (MaxNcomp + MaxCompBeg)
Addrs == 0..(MemSize - 1)

\* content of memory never written: one of two patterns
Garbage(a, g) == -(1 + a + g)

ZeroVect == IV(0, 0, 0)

FreshFab == [m_box        |-> MkBox(ZeroVect, ZeroVect),
             m_stride     |-> ZeroVect,
             m_ncomp      |-> 0,
             m_size       |-> 0,
             m_data       |-> 0,
             m_pTable     |-> [i \in 0..(MxSz - 1) |-> 0],
             m_nrmDir     |-> 0,
             m_numPntSlab |-> 0,
             m_numSubBox  |-> 0,
             m_compBegSrc |-> 0]

NoOp == [kind |-> "none", a_i |-> 0, beg |-> 0, end |-> -1]

(***************************************************************************)
(* SlabFab                                                                 *)
(***************************************************************************)
numSlab(f) == dimensions(f.m_box)[f.m_nrmDir]

\* SlabFab::index
SlabIndex(f, a_iv) ==
  LET iv == [a_iv EXCEPT ![f.m_nrmDir] =
               f.m_pTable[a_iv[f.m_nrmDir] - f.m_box.lo[f.m_nrmDir]]]
  IN  iv[0] + iv[1] * f.m_stride[1] + iv[2] * f.m_stride[2]

\* element offset addressed by SlabFab::operator()(a_iv, a_icomp)
SlabAddr(f, a_iv, a_icomp) == f.m_data + a_icomp * f.m_size + SlabIndex(f, a_iv)

\* SlabFab::selectLoadMethod: the new m_numSubBox (0: CH_assert(false))
\* variant: without the branch of the optimized loader
selectLoadMethod_noExact(f, a_numThr, bd) ==
  IF f.m_numPntSlab <= a_numThr THEN -2 ELSE 0

\* variant: the second loader taken where the code has CH_assert(false)
selectLoadMethod_noAssert(f, a_numThr, bd) ==
  IF bd = a_numThr /\ bd = f.m_numPntSlab THEN -3 ELSE -2

selectLoadMethod(f, a_numThr, bd) ==
  IF bd = a_numThr /\ bd = f.m_numPntSlab THEN -3
  ELSE IF f.m_numPntSlab <= a_numThr THEN -2
  ELSE 0

\* the part of SlabFab::define executed by thread 0
DefineFab(a, bd) ==
  LET st  == setStride(a.a_box)
      lo  == [a.a_box.lo EXCEPT ![a.a_nrmDir] = 0]
      dms == [dimensions(a.a_box) EXCEPT ![a.a_nrmDir] = 1]
      f0  == [m_box        |-> a.a_box,
              m_stride     |-> st.m_stride,
              m_ncomp      |-> a.a_ncomp,
              m_size       |-> st.m_size,
              m_data       |-> vecToLin0([d \in Dirs |-> -lo[d]], st.m_stride),
              m_pTable     |-> [i \in 0..(MxSz - 1) |-> i],
              m_nrmDir     |-> a.a_nrmDir,
              m_numPntSlab |-> product(dms),
              m_numSubBox  |-> 0,
              m_compBegSrc |-> a.a_compBegSrc]
  IN  [f0 EXCEPT !.m_numSubBox = selectLoadMethod(f0, a.a_numThrLS, bd)]

\* the CH_asserts of the thread-0 part of define
DefineAsserts(a, bd) ==
  /\ IVle(a.a_box.lo, a.a_box.hi)
  /\ dimensions(a.a_box)[a.a_nrmDir] > 1
  /\ dimensions(a.a_box)[a.a_nrmDir] <= MxSz
  /\ a.a_numThrLS <= bd
  /\ DefineFab(a, bd).m_numSubBox # 0

\* a_vecLS of thread t after "if (threadIdx.x < m_numPntSlab) linToVec"
DefineVec(f, t, old) ==
  IF t < f.m_numPntSlab THEN linToVecBox(f.m_box, t) ELSE old

\* does thread t copy in loadSlab(a_vecThr, a_idxThr0, a_numThr)?
LoadActive(f, t, a_idxThr0) ==
  \/ f.m_numSubBox = -3
  \/ /\ f.m_numSubBox = -2
     /\ t - a_idxThr0 >= 0
     /\ t - a_idxThr0 < f.m_numPntSlab

\* the element writes <<offset, value>> of thread t in one loadSlab call
loadSlab(f, a_vecThr, a_idxThr0, t) ==
  IF LoadActive(f, t, a_idxThr0)
  THEN {<<SlabAddr(f, a_vecThr, iC), SrcAt(a_vecThr, iC)>> :
          iC \in f.m_compBegSrc..(f.m_compBegSrc + f.m_ncomp - 1)}
  ELSE {}

\* the CH_asserts thread t meets in one loadSlab call
LoadAsserts(f, a_vecThr, a_idxThr0, a_numThr, t, bd) ==
  /\ f.m_numSubBox # 0
  /\ a_vecThr[f.m_nrmDir] >= f.m_box.lo[f.m_nrmDir]
  /\ a_vecThr[f.m_nrmDir] <= f.m_box.hi[f.m_nrmDir]
  /\ a_numThr <= bd
  /\ (f.m_numSubBox = -3 => bd = a_numThr)
  /\ (f.m_numSubBox = -2 => f.m_numPntSlab <= a_numThr)
  /\ (LoadActive(f, t, a_idxThr0) =>
        contains(f.m_box, a_vecThr) /\ contains(SrcFab.m_box, a_vecThr))

\* variant: the number of chunks rounded down instead of up
normalizedN_floor(a_i, nSlab) == a_i + cdiv(abs(a_i), nSlab) * nSlab

\* "Get a_i >= 0 by adding chunks of size m_numSlab"
normalizedN(a_i, nSlab) == a_i + (cdiv(abs(a_i) - 1, nSlab) + 1) * nSlab

\* variant: the table rotated against the direction of the box
ShiftTable_neg(pTable, a_i, nSlab) ==
  [j \in DOMAIN pTable |->
     IF j < nSlab THEN cmod(pTable[j] + normalizedN(-a_i, nSlab), nSlab)
     ELSE pTable[j]]

\* variant: the table rotated by |a_i| whatever the direction
ShiftTable_abs(pTable, a_i, nSlab) ==
  [j \in DOMAIN pTable |->
     IF j < nSlab THEN cmod(pTable[j] + normalizedN(abs(a_i), nSlab), nSlab)
     ELSE pTable[j]]

\* variant: every thread threadIdx.x < MxSz rotates its entry
ShiftTable_all(pTable, a_i, nSlab) ==
  [j \in DOMAIN pTable |-> cmod(pTable[j] + normalizedN(a_i, nSlab), nSlab)]

\* m_pTable after the threads threadIdx.x < nSlab have rotated their entry
ShiftTable(pTable, a_i, nSlab) ==
  [j \in DOMAIN pTable |->
     IF j < nSlab THEN cmod(pTable[j] + normalizedN(a_i, nSlab), nSlab)
     ELSE pTable[j]]

\* SlabFab::shift(int a_i): the object after all threads returned
ShiftFab(f, a_i) ==
  IF a_i = 0 THEN f
  ELSE [f EXCEPT !.m_box    = BoxShift(f.m_box, a_i, f.m_nrmDir),
                 !.m_pTable = ShiftTable(f.m_pTable, a_i, numSlab(f))]

\* locNDBeg, locNDEnd of shift(a_i, a_vecThrLS), from the shifted box
LoadRange(f, a_i) ==
  IF a_i > 0
  THEN [beg |-> f.m_box.hi[f.m_nrmDir] - abs(a_i) + 1,
        end |-> f.m_box.hi[f.m_nrmDir]]
  ELSE [beg |-> f.m_box.lo[f.m_nrmDir],
        end |-> f.m_box.lo[f.m_nrmDir] + abs(a_i) - 1]

\* a_vecThr of thread t in the loadSlab call for index locND
VecAt(f, vecs, t, locND) == [vecs[t] EXCEPT ![f.m_nrmDir] = locND]

\* the writes of the loop "for locND = beg..end: loadSlab(vec, idx0, numThr)"
\* over all threads: records of slab index, thread, offset and value
LoadLoop(f, vecs, beg, end, a_idxThr0, thr) ==
  UNION {{[x |-> p[1], t |-> p[2], addr |-> w[1], val |-> w[2]] :
            w \in loadSlab(f, VecAt(f, vecs, p[2], p[1]), a_idxThr0, p[2])} :
         p \in (beg..end) \X thr}

\* no CH_assert fails in that loop
LoadLoopAsserts(f, vecs, beg, end, a_idxThr0, a_numThr, thr, bd) ==
  \A x \in beg..end : \A t \in thr :
    LoadAsserts(f, VecAt(f, vecs, t, x), a_idxThr0, a_numThr, t, bd)

\* memory after the writes W
Store(m, W) ==
  [a \in DOMAIN m |->
     IF \E w \in W : w.addr = a
     THEN (CHOOSE w \in W : w.addr = a).val
     ELSE m[a]]

\* a_vecLS of every thread after the loop (its last assignment)
LoopVecs(f, vecs, beg, end) ==
  [t \in DOMAIN vecs |->
     IF beg <= end THEN VecAt(f, vecs, t, end) ELSE vecs[t]]

(***************************************************************************)
(* Inputs                                                                  *)
(***************************************************************************)
\* a_box of define: low corner BaseLo, 2..MxSz cells along a_nrmDir
DefineBoxes(nd) ==
  {MkBox(BaseLo, [d \in Dirs |-> BaseLo[d] + e[d] - 1]) :
     e \in {e \in [Dirs -> 1..MxSz] :
              /\ e[nd] >= 2
              /\ \A d \in Dirs \ {nd} : e[d] <= MaxTan}}

\* [a_locNDBeg, a_locNDEnd]: all slabs of the box, or the first only
LoadRanges(box, nd) ==
  {<<box.lo[nd], box.hi[nd]>>, <<box.lo[nd], box.lo[nd]>>}

DefineArgs(bd) ==
  UNION {UNION {{[a_box |-> b, a_ncomp |-> nc, a_nrmDir |-> nd,
                  a_locNDBeg |-> r[1], a_locNDEnd |-> r[2],
                  a_compBegSrc |-> cb, a_numThrLS |-> nt] :
                   nc \in 1..MaxNcomp, cb \in 0..MaxCompBeg,
                   nt \in (bd - 1)..bd, r \in LoadRanges(b, nd)} :
                b \in DefineBoxes(nd)} :
         nd \in Dirs}

ShiftArgs == (-MaxShift)..MaxShift

\* blockDim.x: as many threads as the largest slab has points, or one more
BlockDims == {MaxTan * MaxTan, MaxTan * MaxTan + 1}

\* the window stays over the source data (bound of the model)
InSource(box) == contains(SrcBox, box.lo) /\ contains(SrcBox, box.hi)

\* variant: no "if (a_i == 0) return;" and one slab more than |a_i| loaded
shiftLoad_oneMore(f, m, vecs, a_i, bd) ==
  LET f2 == [f EXCEPT !.m_box    = BoxShift(f.m_box, a_i, f.m_nrmDir),
                      !.m_pTable = ShiftTable(f.m_pTable, a_i, numSlab(f))]
      r0 == LoadRange(f2, a_i)
      r  == IF a_i > 0 THEN [r0 EXCEPT !.beg = @ - 1]
            ELSE [r0 EXCEPT !.end = @ + 1]
  IN  IF /\ bd >= numSlab(f)
         /\ LoadLoopAsserts(f2, vecs, r.beg, r.end, 0, bd, DOMAIN vecs, bd)
      THEN CHOOSE res \in
             {[ok |-> TRUE, fab |-> f2, mem |-> Store(m, W),
               vecLS |-> LoopVecs(f2, vecs, r.beg, r.end),
               wlog |-> W, beg |-> r.beg, end |-> r.end] :
                W \in {LoadLoop(f2, vecs, r.beg, r.end, 0, DOMAIN vecs)}} :
             TRUE
      ELSE [ok |-> FALSE, fab |-> f, mem |-> m, vecLS |-> vecs,
            wlog |-> {}, beg |-> r.beg, end |-> r.end]

\* SlabFab::shift(int a_i, IntVect& a_vecThrLS) run by all threads of the
\* block on object f, memory m and thread vectors vecs: the outcome
\* (ok = FALSE: a CH_assert failed)
shiftLoad(f, m, vecs, a_i, bd) ==
  IF a_i = 0
  THEN [ok |-> TRUE, fab |-> f, mem |-> m, vecLS |-> vecs,
        wlog |-> {}, beg |-> 0, end |-> -1]
  ELSE LET f2 == ShiftFab(f, a_i)
           r  == LoadRange(f2, a_i)
       IN  IF /\ bd >= numSlab(f)
              /\ LoadLoopAsserts(f2, vecs, r.beg, r.end, 0, bd,
                                 DOMAIN vecs, bd)
           THEN CHOOSE res \in
                  {[ok |-> TRUE, fab |-> f2, mem |-> Store(m, W),
                    vecLS |-> LoopVecs(f2, vecs, r.beg, r.end),
                    wlog |-> W, beg |-> r.beg, end |-> r.end] :
                     W \in {LoadLoop(f2, vecs, r.beg, r.end, 0, DOMAIN vecs)}} :
                  TRUE
           ELSE [ok |-> FALSE, fab |-> f, mem |-> m, vecLS |-> vecs,
                 wlog |-> {}, beg |-> r.beg, end |-> r.end]

(***************************************************************************)
(* Spec: define and shift(a_i, a_vecThrLS) as whole handlers, all define   *)
(* arguments.  SpecRot: all three handlers, one component.                 *)
(***************************************************************************)
NoBoxOp == [op |-> "none", n |-> 0, dir |-> 0, side |-> 0,
            other |-> MkBox(ZeroVect, ZeroVect), build |-> "host"]

\* the variables of SpecBox when it is not running
BoxIdle ==
  /\ bx = MkBox(ZeroVect, ZeroVect)
  /\ bx_op = NoBoxOp

NoFab == [m_box |-> MkBox(ZeroVect, ZeroVect), m_stride |-> ZeroVect,
          m_ncomp |-> 0, m_size |-> 0, m_data |-> 0]

NoFabOp == [op |-> "none", host |-> NoFab, a_i |-> 0, a_dir |-> 0,
            a_icomp |-> 0, ptr |-> 0]

NoCopyArg == [blockDim |-> 0, src |-> <<>>, a_idxThr0 |-> 0, a_numThr |-> 0]

\* the variables of SpecFab when it is not running
FabIdle ==
  /\ cf = NoFab
  /\ cf_op = NoFabOp

\* the variables of SpecHost when it is not running
HostIdle == ha = <<>> /\ ha_op = <<>>

\* the variables of SpecLife when it is not running
LifeIdle == lf = <<>> /\ lf_op = <<>>

\* the variables of SpecIter when it is not running
IterIdle == it = <<>> /\ it_op = <<>>

MoreIdle == HostIdle /\ LifeIdle /\ IterIdle

\* the variables of SpecCopy when it is not running
CopyIdle ==
  /\ cw = <<>>
  /\ cw_arg = NoCopyArg
  /\ cw_pc = <<>>
  /\ cw_wr = <<>>

NoArg == [a_box |-> MkBox(ZeroVect, ZeroVect), a_ncomp |-> 0, a_nrmDir |-> 0,
          a_locNDBeg |-> 0, a_locNDEnd |-> -1, a_compBegSrc |-> 0,
          a_numThrLS |-> 0]

\* the variables of SpecLin and SpecThr when these are not running
AuxIdle ==
  /\ b_box = MkBox(ZeroVect, ZeroVect)
  /\ b_lin = 0
  /\ b_vec = ZeroVect
  /\ b_back = 0
  /\ b_pc = "in"
  /\ calls = <<>>
  /\ defArg = NoArg
  /\ t_ci = <<>>
  /\ t_pc = <<>>
  /\ t_nSlab = <<>>
  /\ acc = {}

Init ==
  /\ blockDim \in BlockDims
  /\ fab = FreshFab
  /\ \E g \in 0..1 : mem = [a \in Addrs |-> Garbage(a, g)]
  /\ vecLS = [t \in Threads |-> ZeroVect]
  /\ status = "fresh"
  /\ preload = <<0, -1>>
  /\ lastOp = NoOp
  /\ wlog = {}
  /\ AuxIdle
  /\ BoxIdle
  /\ FabIdle
  /\ CopyIdle
  /\ MoreIdle

Halt(op) ==
  /\ status' = "halted"
  /\ lastOp' = op
  /\ wlog' = {}
  /\ UNCHANGED <<blockDim, fab, mem, vecLS>>

\* SlabFab::define
Define(a) ==
  /\ status = "fresh"
  /\ preload' = <<a.a_locNDBeg, a.a_locNDEnd>>
  /\ \E f \in {DefineFab(a, blockDim)} :
     \E vecs \in {[t \in Threads |-> DefineVec(f, t, vecLS[t])]} :
     \E W \in {LoadLoop(f, vecs, a.a_locNDBeg, a.a_locNDEnd, 0, Threads)} :
       LET op == [kind |-> "define", a_i |-> 0,
                  beg |-> a.a_locNDBeg, end |-> a.a_locNDEnd]
       IN  IF /\ DefineAsserts(a, blockDim)
              /\ LoadLoopAsserts(f, vecs, a.a_locNDBeg, a.a_locNDEnd, 0,
                                 a.a_numThrLS, Threads, blockDim)
           THEN /\ fab' = f
                /\ vecLS' = LoopVecs(f, vecs, a.a_locNDBeg, a.a_locNDEnd)
                /\ mem' = Store(mem, W)
                /\ wlog' = W
                /\ status' = "defined"
                /\ lastOp' = op
                /\ UNCHANGED blockDim
           ELSE Halt(op)

\* SlabFab::shift(int a_i)
Shift(a_i) ==
  LET op == [kind |-> "shift", a_i |-> a_i, beg |-> 0, end |-> -1]
  IN  /\ status = "defined"
      /\ InSource(BoxShift(fab.m_box, a_i, fab.m_nrmDir))
      /\ UNCHANGED preload
      /\ IF a_i = 0 \/ blockDim >= numSlab(fab)
         THEN /\ fab' = ShiftFab(fab, a_i)
              /\ wlog' = {}
              /\ lastOp' = op
              /\ UNCHANGED <<blockDim, mem, vecLS, status>>
         ELSE Halt(op)

\* SlabFab::shift(int a_i, IntVect& a_vecThrLS)
ShiftLoad(a_i) ==
  /\ status = "defined"
  /\ InSource(BoxShift(fab.m_box, a_i, fab.m_nrmDir))
  /\ UNCHANGED preload
  /\ \E r \in {shiftLoad(fab, mem, vecLS, a_i, blockDim)} :
       LET op == [kind |-> "shiftLoad", a_i |-> a_i,
                  beg |-> r.beg, end |-> r.end]
       IN  IF r.ok
           THEN /\ fab' = r.fab
                /\ vecLS' = r.vecLS
                /\ mem' = r.mem
                /\ wlog' = r.wlog
                /\ lastOp' = op
                /\ UNCHANGED <<blockDim, status>>
           ELSE Halt(op)

Next ==
  \/ status = "fresh" /\ (\E a \in DefineArgs(blockDim) : Define(a))
       /\ UNCHANGED <<linVars, thrVars, auxVars>>
  \/ status = "defined" /\ (\E a_i \in ShiftArgs : ShiftLoad(a_i))
       /\ UNCHANGED <<linVars, thrVars, auxVars>>

Spec == Init /\ [][Next]_vars

\* define arguments of SpecRot: one component, all slabs preloaded
RotArgs(bd) ==
  {a \in DefineArgs(bd) :
     /\ a.a_ncomp = 1 /\ a.a_compBegSrc = 0 /\ a.a_numThrLS = bd
     /\ a.a_locNDEnd = a.a_box.hi[a.a_nrmDir]}

InitRot ==
  /\ blockDim = MaxTan * MaxTan + 1
  /\ fab = FreshFab
  /\ mem = [a \in Addrs |-> Garbage(a, 0)]
  /\ vecLS = [t \in Threads |-> ZeroVect]
  /\ status = "fresh"
  /\ preload = <<0, -1>>
  /\ lastOp = NoOp
  /\ wlog = {}
  /\ AuxIdle
  /\ BoxIdle
  /\ FabIdle
  /\ CopyIdle
  /\ MoreIdle

NextRot ==
  \/ status = "fresh" /\ (\E a \in RotArgs(blockDim) : Define(a))
       /\ UNCHANGED <<linVars, thrVars, auxVars>>
  \/ status = "defined" /\ (\E a_i \in ShiftArgs : Shift(a_i))
       /\ UNCHANGED <<linVars, thrVars, auxVars>>
  \/ status = "defined" /\ (\E a_i \in ShiftArgs : ShiftLoad(a_i))
       /\ UNCHANGED <<linVars, thrVars, auxVars>>

SpecRot == InitRot /\ [][NextRot]_vars

(***************************************************************************)
(* SpecLin: Box::linToVec, then Box::vecToLin0, on a box and a linear      *)
(* index of the box, with the strides of the box (Box::getStride).         *)
(***************************************************************************)
LoVals == {-1, 0, 2}

LinBoxes ==
  {MkBox(lo, [d \in Dirs |-> lo[d] + e[d] - 1]) :
     lo \in [Dirs -> LoVals], e \in [Dirs -> 1..LinExt]}

SlabIdle ==
  /\ blockDim = MaxTan * MaxTan
  /\ fab = FreshFab
  /\ mem = [a \in Addrs |-> Garbage(a, 0)]
  /\ vecLS = [t \in Threads |-> ZeroVect]
  /\ status = "fresh"
  /\ preload = <<0, -1>>
  /\ lastOp = NoOp
  /\ wlog = {}

InitLin ==
  /\ SlabIdle
  /\ BoxIdle
  /\ FabIdle
  /\ CopyIdle
  /\ MoreIdle
  /\ calls = <<>>
  /\ defArg = NoArg
  /\ t_ci = <<>>
  /\ t_pc = <<>>
  /\ t_nSlab = <<>>
  /\ acc = {}
  /\ b_box \in LinBoxes
  /\ b_lin \in 0..(size(b_box) - 1)
  /\ b_vec = ZeroVect
  /\ b_back = 0
  /\ b_pc = "in"

\* m_box.linToVec(a_lin, stride, a_vec)
DoLinToVec ==
  /\ b_pc = "in"
  /\ b_vec' = linToVec(b_box, b_lin, getStride(b_box))
  /\ b_pc' = "vec"
  /\ UNCHANGED <<b_box, b_lin, b_back>>
  /\ UNCHANGED <<slabVars, thrVars, auxVars>>

\* m_box.vecToLin0(a_vec, stride)
DoVecToLin0 ==
  /\ b_pc = "vec"
  /\ b_back' = vecToLin0(b_vec, getStride(b_box))
  /\ b_pc' = "lin"
  /\ UNCHANGED <<b_box, b_lin, b_vec>>
  /\ UNCHANGED <<slabVars, thrVars, auxVars>>

NextLin == DoLinToVec \/ DoVecToLin0

SpecLin == InitLin /\ [][NextLin]_vars

(***************************************************************************)
(* SpecThr: the threads of one block run define and then shifts, each      *)
(* thread at its own pace between two __syncthreads().  The code of a call *)
(* is the sequence of its parts, "sync" being a __syncthreads(); a part is *)
(* named after the source line it starts at.                               *)
(***************************************************************************)
defineCode == <<"d671", "sync", "d698">>

\* variant: no "__syncthreads();  // Safe to move box"
shiftCode_noSync == <<"s778", "s781", "sync">>

shiftCode == <<"s778", "sync", "s781", "sync">>

\* shift(a_i, a_vecThrLS) calls shift(a_i), loads, and synchronizes
shiftLoadCode == shiftCode \o <<"s808", "sync">>

\* "if (a_i == 0) return;" leaves nothing of a shift
Code(op) ==
  IF op.kind = "define" THEN defineCode
  ELSE IF op.a_i = 0 THEN <<>>
  ELSE IF op.kind = "shift" THEN shiftCode
  ELSE shiftLoadCode

ThrIds == 0..(NumThr - 1)

ThrArgs ==
  {a \in DefineArgs(NumThr) :
     a.a_ncomp = 1 /\ a.a_compBegSrc = 0 /\ a.a_numThrLS = NumThr}

\* the k-th call: define first, then shifts
ThrOps(k) ==
  IF k = 1 THEN {[kind |-> "define", a_i |-> 0]}
  ELSE {[kind |-> kd, a_i |-> n] :
          kd \in {"shift", "shiftLoad"}, n \in (-MaxThrShift)..MaxThrShift}

CurOp(t) == calls[t_ci[t]]
Label(t) == IF t_pc[t] = 0 THEN "none" ELSE Code(CurOp(t))[t_pc[t]]
Advance(t) == IF t_pc[t] = Len(Code(CurOp(t))) THEN 0 ELSE t_pc[t] + 1

BoxLoc == <<"m_box", 0>>
TabLoc(j) == <<"m_pTable", j>>
Rd(t, l) == [loc |-> l, thr |-> t, w |-> FALSE, op |-> CurOp(t).kind]
Wr(t, l) == [loc |-> l, thr |-> t, w |-> TRUE, op |-> CurOp(t).kind]

InitThr ==
  /\ BoxIdle
  /\ FabIdle
  /\ CopyIdle
  /\ MoreIdle
  /\ blockDim = NumThr
  /\ fab = FreshFab
  /\ mem = [a \in Addrs |-> Garbage(a, 0)]
  /\ vecLS = [t \in ThrIds |-> ZeroVect]
  /\ status = "fresh"
  /\ preload = <<0, -1>>
  /\ lastOp = NoOp
  /\ wlog = {}
  /\ b_box = MkBox(ZeroVect, ZeroVect)
  /\ b_lin = 0
  /\ b_vec = ZeroVect
  /\ b_back = 0
  /\ b_pc = "in"
  /\ calls = <<>>
  /\ defArg \in ThrArgs
  /\ t_ci = [t \in ThrIds |-> 0]
  /\ t_pc = [t \in ThrIds |-> 0]
  /\ t_nSlab = [t \in ThrIds |-> 0]
  /\ acc = {}

\* a CH_assert of thread t fails
ThrHalt ==
  /\ status' = "halted"
  /\ UNCHANGED <<blockDim, fab, mem, vecLS, preload, lastOp, wlog>>
  /\ UNCHANGED <<linVars, thrVars, auxVars>>

\* thread t enters its next call (the first thread there decides the call)
Call(t) ==
  /\ status # "halted"
  /\ t_pc[t] = 0
  /\ t_ci[t] < MaxCalls
  /\ \E k \in {t_ci[t] + 1} :
       /\ IF k <= Len(calls)
          THEN UNCHANGED calls
          ELSE \E op \in ThrOps(k) :
                 /\ op.kind # "define" =>
                      InSource(BoxShift(fab.m_box, op.a_i, fab.m_nrmDir))
                 /\ calls' = Append(calls, op)
       /\ t_ci' = [t_ci EXCEPT ![t] = k]
       /\ t_pc' = [t_pc EXCEPT ![t] = IF Code(calls'[k]) = <<>> THEN 0 ELSE 1]
  /\ UNCHANGED <<blockDim, fab, mem, vecLS, status, preload, lastOp, wlog>>
  /\ UNCHANGED <<linVars, auxVars, defArg, t_nSlab, acc>>

\* define, "if (threadIdx.x == 0) { ... }"
DefineThr0(t) ==
  /\ status # "halted"
  /\ Label(t) = "d671"
  /\ IF t # 0
     THEN /\ t_pc' = [t_pc EXCEPT ![t] = Advance(t)]
          /\ UNCHANGED <<blockDim, fab, mem, vecLS, status, preload, lastOp,
                         wlog, linVars, auxVars, calls, defArg, t_ci, t_nSlab, acc>>
     ELSE IF DefineAsserts(defArg, blockDim)
     THEN /\ fab' = DefineFab(defArg, blockDim)
          /\ status' = "defined"
          /\ acc' = acc \cup {Wr(t, BoxLoc)}
                        \cup {Wr(t, TabLoc(i)) : i \in 0..(MxSz - 1)}
          /\ t_pc' = [t_pc EXCEPT ![t] = Advance(t)]
          /\ UNCHANGED <<blockDim, mem, vecLS, preload, lastOp, wlog,
                         linVars, auxVars, calls, defArg, t_ci, t_nSlab>>
     ELSE ThrHalt

\* the reads of m_box and m_pTable by thread t in the loop
\* "for locND = beg..end: a_vec[m_nrmDir] = locND; loadSlab(a_vec, 0, ...)"
LoadReads(t, beg, end) ==
  IF beg > end THEN {}
  ELSE {Rd(t, BoxLoc)} \cup
       (IF LoadActive(fab, t, 0)
        THEN {Rd(t, TabLoc(x - fab.m_box.lo[fab.m_nrmDir])) : x \in beg..end}
        ELSE {})

\* that loop run by thread t from the vector vec0
LoadSlabs(t, vec0, beg, end, a_numThr, rds) ==
  \E vecs \in {[vecLS EXCEPT ![t] = vec0]} :
    IF LoadLoopAsserts(fab, vecs, beg, end, 0, a_numThr, {t}, blockDim)
    THEN /\ mem' = Store(mem, LoadLoop(fab, vecs, beg, end, 0, {t}))
         /\ vecLS' = LoopVecs(fab, vecs, beg, end)
         /\ acc' = acc \cup rds \cup LoadReads(t, beg, end)
         /\ t_pc' = [t_pc EXCEPT ![t] = Advance(t)]
         /\ UNCHANGED <<blockDim, fab, status, preload, lastOp, wlog,
                        linVars, auxVars, calls, defArg, t_ci, t_nSlab>>
    ELSE ThrHalt

\* define after its __syncthreads(): linToVec, then the initial loads
DefineLoad(t) ==
  /\ status # "halted"
  /\ Label(t) = "d698"
  /\ LoadSlabs(t, DefineVec(fab, t, vecLS[t]),
               defArg.a_locNDBeg, defArg.a_locNDEnd, defArg.a_numThrLS,
               IF t < fab.m_numPntSlab THEN {Rd(t, BoxLoc)} ELSE {})

\* shift: "const int nSlab = numSlab(); CH_assert(blockDim.x >= nSlab);"
ShiftRead(t) ==
  /\ status # "halted"
  /\ Label(t) = "s778"
  /\ IF blockDim >= numSlab(fab)
     THEN /\ t_nSlab' = [t_nSlab EXCEPT ![t] = numSlab(fab)]
          /\ acc' = acc \cup {Rd(t, BoxLoc)}
          /\ t_pc' = [t_pc EXCEPT ![t] = Advance(t)]
          /\ UNCHANGED <<blockDim, fab, mem, vecLS, status, preload, lastOp,
                         wlog, linVars, auxVars, calls, defArg, t_ci>>
     ELSE ThrHalt

\* shift: "if (threadIdx.x < nSlab) { ... }" between the two __syncthreads()
ShiftRotate(t) ==
  /\ status # "halted"
  /\ Label(t) = "s781"
  /\ IF t < t_nSlab[t]
     THEN /\ fab' =
               [fab EXCEPT
                  !.m_box = IF t = 0
                            THEN BoxShift(@, CurOp(t).a_i, fab.m_nrmDir)
                            ELSE @,
                  !.m_pTable[t] =
                     cmod(@ + normalizedN(CurOp(t).a_i, t_nSlab[t]),
                          t_nSlab[t])]
          /\ acc' = acc \cup {Rd(t, TabLoc(t)), Wr(t, TabLoc(t))}
                        \cup (IF t = 0 THEN {Wr(t, BoxLoc)} ELSE {})
     ELSE UNCHANGED <<fab, acc>>
  /\ t_pc' = [t_pc EXCEPT ![t] = Advance(t)]
  /\ UNCHANGED <<blockDim, mem, vecLS, status, preload, lastOp, wlog,
                 linVars, auxVars, calls, defArg, t_ci, t_nSlab>>

\* shift(a_i, a_vecThrLS) after shift(a_i): the range, then the loads
ShiftLoadSlabs(t) ==
  /\ status # "halted"
  /\ Label(t) = "s808"
  /\ \E r \in {LoadRange(fab, CurOp(t).a_i)} :
       LoadSlabs(t, vecLS[t], r.beg, r.end, blockDim, {Rd(t, BoxLoc)})

\* __syncthreads(): every thread of the block has arrived
Sync ==
  /\ status # "halted"
  /\ \A t \in ThrIds : Label(t) = "sync"
  /\ t_pc' = [t \in ThrIds |-> Advance(t)]
  /\ acc' = {}
  /\ UNCHANGED <<blockDim, fab, mem, vecLS, status, preload, lastOp, wlog,
                 linVars, auxVars, calls, defArg, t_ci, t_nSlab>>

NextThr ==
  \/ \E t \in ThrIds : Call(t)
  \/ \E t \in ThrIds : DefineThr0(t)
  \/ \E t \in ThrIds : DefineLoad(t)
  \/ \E t \in ThrIds : ShiftRead(t)
  \/ \E t \in ThrIds : ShiftRotate(t)
  \/ \E t \in ThrIds : ShiftLoadSlabs(t)
  \/ Sync

SpecThr == InitThr /\ [][NextThr]_vars

(***************************************************************************)
(* SpecBox: a Box is constructed, by Box() or Box(a_lo, a_hi), and one     *)
(* member function is applied to it.                                       *)
(***************************************************************************)
Builds == {"host", "cuda"}

\* what the members of a Box left uninitialised may hold
UninitBoxes == {MkBox(lo, hi) : lo \in [Dirs -> {0, 1}], hi \in [Dirs -> {0, 1}]}

CellArgs == (-MaxCells)..MaxCells

InitBox ==
  /\ SlabIdle
  /\ AuxIdle
  /\ FabIdle
  /\ CopyIdle
  /\ MoreIdle
  /\ \/ /\ bx \in LinBoxes
        /\ bx_op = [NoBoxOp EXCEPT !.op = "Box(a_lo, a_hi)"]
     \/ \E build \in Builds : \E u \in UninitBoxes :
          /\ bx = DefaultBox(build, u)
          /\ bx_op = [NoBoxOp EXCEPT !.op = "Box()", !.build = build]

\* the function is applied to a Box built by Box(a_lo, a_hi)
Built == bx_op.op = "Box(a_lo, a_hi)"

DoGrow(a_i) ==
  /\ Built
  /\ bx' = grow(bx, a_i)
  /\ bx_op' = [NoBoxOp EXCEPT !.op = "grow", !.n = a_i]
  /\ UNCHANGED <<slabVars, linVars, thrVars, fabVars, copyVars, moreVars>>

DoGrowDir(a_i, a_dir) ==
  /\ Built
  /\ bx' = growDir(bx, a_i, a_dir)
  /\ bx_op' = [NoBoxOp EXCEPT !.op = "growDir", !.n = a_i, !.dir = a_dir]
  /\ UNCHANGED <<slabVars, linVars, thrVars, fabVars, copyVars, moreVars>>

DoAdjBox(a_ncell, a_dir, a_side) ==
  /\ Built
  /\ bx' = adjBox(bx, a_ncell, a_dir, a_side)
  /\ bx_op' = [NoBoxOp EXCEPT !.op = "adjBox", !.n = a_ncell,
                              !.dir = a_dir, !.side = a_side]
  /\ UNCHANGED <<slabVars, linVars, thrVars, fabVars, copyVars, moreVars>>

DoAndEq(a_box) ==
  /\ Built
  /\ bx' = BoxAndEq(bx, a_box)
  /\ bx_op' = [NoBoxOp EXCEPT !.op = "operator&=", !.other = a_box]
  /\ UNCHANGED <<slabVars, linVars, thrVars, fabVars, copyVars, moreVars>>

NextBox ==
  \/ \E a_i \in CellArgs : DoGrow(a_i)
  \/ \E a_i \in CellArgs : \E a_dir \in Dirs : DoGrowDir(a_i, a_dir)
  \/ \E a_ncell \in CellArgs : \E a_dir \in Dirs : \E a_side \in {-1, 0, 1} :
       DoAdjBox(a_ncell, a_dir, a_side)
  \/ \E a_box \in LinBoxes : DoAndEq(a_box)

SpecBox == InitBox /\ [][NextBox]_vars

(***************************************************************************)
(* SpecFab: a CudaFab is built for a BaseFab, from the pointer, box and    *)
(* number of components or from the BaseFabData, and then shifted.         *)
(* Addresses count elements of the device memory.                          *)
(***************************************************************************)
\* m_dataSymbol.device, not the start of the device memory
DevicePtrs == {3}

InitFab ==
  /\ SlabIdle
  /\ AuxIdle
  /\ BoxIdle
  /\ CopyIdle
  /\ MoreIdle
  /\ cf = NoFab
  /\ \E b \in LinBoxes : \E nc \in 1..MaxNcomp : \E dev \in DevicePtrs :
       cf_op = [NoFabOp EXCEPT !.op = "BaseFab",
                               !.host = BaseFabData(b, nc, dev)]

FabDefine ==
  /\ cf_op.op = "BaseFab"
  /\ cf' = CudaFabDefine(cf_op.host.device, cf_op.host.m_box,
                         cf_op.host.m_ncomp)
  /\ cf_op' = [cf_op EXCEPT !.op = "define(a_alias, a_box, a_ncomp)"]
  /\ UNCHANGED <<slabVars, linVars, thrVars, boxVars, copyVars, moreVars>>

FabDefineData ==
  /\ cf_op.op = "BaseFab"
  /\ cf' = CudaFabDefineData(cf_op.host)
  /\ cf_op' = [cf_op EXCEPT !.op = "define(a_baseFab)"]
  /\ UNCHANGED <<slabVars, linVars, thrVars, boxVars, copyVars, moreVars>>

\* how far the box of f is from the box of the BaseFab
Moved(f) ==
  abs(f.m_box.lo[0] - cf_op.host.m_box.lo[0])
    + abs(f.m_box.lo[1] - cf_op.host.m_box.lo[1])
    + abs(f.m_box.lo[2] - cf_op.host.m_box.lo[2])

\* dataPtr(a_icomp) on the CudaFab as define left it
FabDataPtr(a_icomp) ==
  /\ cf_op.op \in {"define(a_alias, a_box, a_ncomp)", "define(a_baseFab)"}
  /\ cf_op' = [cf_op EXCEPT !.op = "dataPtr", !.a_icomp = a_icomp,
                            !.ptr = CudaFabDataPtr(cf, a_icomp)]
  /\ UNCHANGED cf
  /\ UNCHANGED <<slabVars, linVars, thrVars, boxVars, copyVars, moreVars>>

FabShift(a_i, a_dir) ==
  /\ cf_op.op \notin {"none", "BaseFab", "dataPtr"}
  /\ \E f \in {CudaFabShift(cf, a_i, a_dir)} :
       /\ Moved(f) <= MaxCells
       /\ cf' = f
  /\ cf_op' = [cf_op EXCEPT !.op = "shift", !.a_i = a_i, !.a_dir = a_dir]
  /\ UNCHANGED <<slabVars, linVars, thrVars, boxVars, copyVars, moreVars>>

NextFab ==
  \/ FabDefine
  \/ FabDefineData
  \/ \E a_i \in CellArgs : \E a_dir \in Dirs : FabShift(a_i, a_dir)
  \/ \E a_icomp \in 0..(cf.m_ncomp - 1) : FabDataPtr(a_icomp)

SpecFab == InitFab /\ [][NextFab]_vars

(***************************************************************************)
(* SpecCopy: CudaFab::define(a_cudaFab, a_idxThr0, a_numThr), the copy of  *)
(* a CudaFab by the threads of a block, one 32-bit word per thread, and    *)
(* the __syncthreads() of the caller after it.  The threads run in any     *)
(* order.  A CudaFab<T> is 56 bytes: m_box (6 int), m_stride (3 int),      *)
(* m_ncomp, m_size, 4 bytes of padding and the 8 bytes of m_data.          *)
(***************************************************************************)
numThrCopy == 14

Words == 0..(numThrCopy - 1)

\* the object representation of a CudaFab, pad in the padding word; the
\* addresses of the model fit the low word of m_data, the high word is 0
CudaFabWords(f, pad) ==
  [w \in Words |->
     CASE w \in 0..2 -> f.m_box.lo[w]
       [] w \in 3..5 -> f.m_box.hi[w - 3]
       [] w \in 6..8 -> f.m_stride[w - 6]
       [] w = 9      -> f.m_ncomp
       [] w = 10     -> f.m_size
       [] w = 11     -> pad
       [] w = 12     -> f.m_data
       [] w = 13     -> 0]

\* a_cudaFab of the copy
CopySrc == CudaFabDefine(3, MkBox(IV(2, 2, -1), IV(3, 3, 0)), 2)

\* blockDim.x: one thread per word, or one more
CopyBlockDims == {numThrCopy, numThrCopy + 1}

CopyArgs ==
  {[blockDim |-> bd, src |-> CudaFabWords(CopySrc, 77),
    a_idxThr0 |-> i0, a_numThr |-> nt] :
     bd \in CopyBlockDims, i0 \in 0..1, nt \in (numThrCopy - 1)..(numThrCopy + 1)}

CopyThreads == 0..(cw_arg.blockDim - 1)

InitCopy ==
  /\ SlabIdle
  /\ AuxIdle
  /\ BoxIdle
  /\ FabIdle
  /\ MoreIdle
  /\ cw_arg \in CopyArgs
  /\ cw = [w \in Words |-> -1 - w]
  /\ cw_pc = [t \in CopyThreads |-> "define"]
  /\ cw_wr = [w \in Words |-> {}]

\* variant: the index of the thread in the block is used as it is
idxThr_noOrigin(t, a_idxThr0) == t

\* const int idxThr = threadIdx.x - a_idxThr0
idxThr(t, a_idxThr0) == t - a_idxThr0

\* thread t runs define(a_cudaFab, a_idxThr0, a_numThr)
CopyDefine(t) ==
  /\ cw_pc[t] = "define"
  /\ \E i \in {idxThr(t, cw_arg.a_idxThr0)} :
       IF i >= 0 /\ i < numThrCopy
       THEN IF /\ cw_arg.a_numThr <= cw_arg.blockDim
               /\ cw_arg.a_numThr >= numThrCopy
            THEN /\ cw' = [cw EXCEPT ![i] = cw_arg.src[i]]
                 /\ cw_wr' = [cw_wr EXCEPT ![i] = @ \cup {t}]
                 /\ cw_pc' = [cw_pc EXCEPT ![t] = "sync"]
            ELSE /\ cw_pc' = [cw_pc EXCEPT ![t] = "halted"]
                 /\ UNCHANGED <<cw, cw_wr>>
       ELSE /\ cw_pc' = [cw_pc EXCEPT ![t] = "sync"]
            /\ UNCHANGED <<cw, cw_wr>>
  /\ UNCHANGED <<cw_arg, slabVars, linVars, thrVars, boxVars, fabVars,
                 moreVars>>

\* __syncthreads() after the define: passed when every thread is at it
CopySync ==
  /\ \A t \in CopyThreads : cw_pc[t] = "sync"
  /\ cw_pc' = [t \in CopyThreads |-> "after"]
  /\ UNCHANGED <<cw, cw_arg, cw_wr, slabVars, linVars, thrVars, boxVars,
                 fabVars, moreVars>>

NextCopy ==
  \/ \E t \in CopyThreads : CopyDefine(t)
  \/ CopySync

SpecCopy == InitCopy /\ [][NextCopy]_vars

(***************************************************************************)
(* SpecHost: a BaseFab on the host, its m_data holding the value k in      *)
(* element k, and one member function applied to it.                       *)
(***************************************************************************)
\* the box of the 4 x 4 x 4 array with 64 elements
Box444 == MkBox(IV(0, 0, 0), IV(3, 3, 3))

HostBoxes == LinBoxes \cup {Box444}

\* a BaseFab over a_box with a_ncomp components, element k holding fill[k]
HostFab(a_box, a_ncomp, fill) ==
  [fab   |-> BaseFabData(a_box, a_ncomp, 0),
   data  |-> [k \in 0..(size(a_box) * a_ncomp - 1) |-> fill[k]],
   other |-> <<>>,
   buf   |-> <<>>]

\* m_data[off]; -1 stands for what lies outside the array
HostRead(data, off) == IF off \in DOMAIN data THEN data[off] ELSE -1

NoHostFab == [fab |-> BaseFabData(MkBox(ZeroVect, ZeroVect), 0, 0),
              data |-> <<>>]

NoHostOp == [op |-> "none", a_iv |-> ZeroVect, a_icomp |-> 0, off |-> 0,
             val |-> 0, a_dstBox |-> MkBox(ZeroVect, ZeroVect),
             a_srcBox |-> MkBox(ZeroVect, ZeroVect), a_dstComp |-> 0,
             a_srcComp |-> 0, a_numComp |-> 0, a_compFlags |-> 0,
             a_endComp |-> 0, wr |-> {}, T |-> "", bytes |-> 0,
             cudaBytes |-> 0]

InitHost ==
  /\ SlabIdle
  /\ AuxIdle
  /\ BoxIdle
  /\ FabIdle
  /\ CopyIdle
  /\ LifeIdle
  /\ IterIdle
  /\ \E b \in HostBoxes : \E nc \in 1..MaxNcomp :
       ha = [HostFab(b, nc, [k \in 0..(size(b) * nc - 1) |-> k])
               EXCEPT !.other = NoHostFab, !.buf = <<>>]
  /\ ha_op = [NoHostOp EXCEPT !.op = "BaseFab"]

oldVars == <<slabVars, linVars, thrVars, boxVars, fabVars, copyVars>>

\* the points of the box and the ones next to its corners
AtPoints(box) ==
  BoxPointsOf(box)
    \cup {[box.lo EXCEPT ![d] = @ - 1] : d \in Dirs}
    \cup {[box.hi EXCEPT ![d] = @ + 1] : d \in Dirs}

\* BaseFab::operator()(a_iv, a_icomp), read
HostAt(a_iv, a_icomp) ==
  /\ ha_op.op = "BaseFab"
  /\ IF contains(ha.fab.m_box, a_iv)
     THEN \E off \in {BaseFabAt(ha.fab, a_iv, a_icomp)} :
            ha_op' = [NoHostOp EXCEPT !.op = "at", !.a_iv = a_iv,
                                      !.a_icomp = a_icomp, !.off = off,
                                      !.val = HostRead(ha.data, off)]
     ELSE ha_op' = [NoHostOp EXCEPT !.op = "halted", !.a_iv = a_iv,
                                    !.a_icomp = a_icomp]
  /\ UNCHANGED <<ha, oldVars, lifeVars, iterVars>>

\* the element types T and sizeof(T)
ElemTypes == {"char", "int", "float", "double"}
SizeofT(T) ==
  CASE T = "char" -> 1 [] T = "int" -> 4 [] T = "float" -> 4 [] T = "double" -> 8

\* sizeof(typeid(T).name()), the size of a const char*, on a 32-bit and on a
\* 64-bit build
SizeofName == {4, 8}

\* BaseFab::size
BaseFabSize(f) == f.m_ncomp * f.m_size

\* BaseFab<T>::sizeBytes
BaseFabSizeBytes(f, T, sizeofName) == BaseFabSize(f) * sizeofName

\* CudaFab<T>::sizeBytes
CudaFabSizeBytes(f, T) == (f.m_ncomp * f.m_size) * SizeofT(T)

\* sizeBytes() of a BaseFab<T> and of the CudaFab<T> defined from it
HostSizeBytes(T, sizeofName) ==
  /\ ha_op.op = "BaseFab"
  /\ ha_op' = [NoHostOp EXCEPT
                 !.op = "sizeBytes", !.T = T,
                 !.bytes = BaseFabSizeBytes(ha.fab, T, sizeofName),
                 !.cudaBytes = CudaFabSizeBytes(CudaFabDefineData(ha.fab), T)]
  /\ UNCHANGED <<ha, oldVars, lifeVars, iterVars>>

\* bit i of a_compFlags
CompFlag(a_compFlags, i) == (a_compFlags \div (2 ^ i)) % 2 = 1

\* the boxes inside a box
SubBoxes(box) ==
  {b \in [lo : BoxPointsOf(box), hi : BoxPointsOf(box)] : IVle(b.lo, b.hi)}

\* m_data after the stores W, a set of <<offset, value>>
HostStore(data, W) ==
  [k \in DOMAIN data |->
     IF \E w \in W : w[1] = k THEN (CHOOSE w \in W : w[1] = k)[2]
     ELSE data[k]]

\* the stores of dst.copy(a_dstBox, a_dstComp, src, a_srcBox, a_srcComp,
\* a_numComp, a_compFlags): the cells the two boxes have in common when
\* a_srcBox is moved to the low corner of a_dstBox, for the components
\* whose flag is set
HostCopyStores(dst, a_dstBox, a_dstComp, src, a_srcBox, a_srcComp, a_numComp, a_compFlags) ==
  LET shape == MkBox(ZeroVect,
                     [d \in Dirs |->
                        IVmin(dimensions(a_dstBox), dimensions(a_srcBox))[d] - 1])
  IN  {<<BaseFabAt(dst.fab, [d \in Dirs |-> a_dstBox.lo[d] + r[d]],
                   a_dstComp + i),
         HostRead(src.data,
                  BaseFabAt(src.fab, [d \in Dirs |-> a_srcBox.lo[d] + r[d]],
                            a_srcComp + i))>> :
        r \in BoxPointsOf(shape),
        i \in {j \in 0..(a_numComp - 1) : CompFlag(a_compFlags, j)}}

\* the low corner of the BaseFabs copy is applied to (bound of the model)
CopyLo == IV(-1, 0, 2)

\* src of the copy: two components over a 2 x 2 x 2 box
CopySrcFab ==
  HostFab(MkBox(IV(1, -2, 0), IV(2, -1, 1)), MaxNcomp,
          [k \in 0..(8 * MaxNcomp - 1) |-> 1000 + k])

\* BaseFab::copy(a_dstBox, a_dstComp, a_src, a_srcBox, a_srcComp, a_numComp,
\* a_compFlags)
HostCopy(a_dstBox, a_dstComp, a_srcBox, a_srcComp, a_numComp, a_compFlags) ==
  /\ ha_op.op = "BaseFab"
  /\ ha.fab.m_box.lo = CopyLo
  /\ a_dstComp + a_numComp <= ha.fab.m_ncomp
  /\ a_srcComp + a_numComp <= CopySrcFab.fab.m_ncomp
  /\ \E W \in {HostCopyStores(ha, a_dstBox, a_dstComp, CopySrcFab, a_srcBox,
                                a_srcComp, a_numComp, a_compFlags)} :
       /\ ha' = [ha EXCEPT !.data = HostStore(ha.data, W),
                           !.other = [fab |-> CopySrcFab.fab,
                                      data |-> CopySrcFab.data]]
       /\ ha_op' = [NoHostOp EXCEPT !.op = "copy", !.a_dstBox = a_dstBox,
                                    !.a_srcBox = a_srcBox,
                                    !.a_dstComp = a_dstComp,
                                    !.a_srcComp = a_srcComp,
                                    !.a_numComp = a_numComp,
                                    !.a_compFlags = a_compFlags,
                                    !.wr = {w[1] : w \in W}]
  /\ UNCHANGED <<oldVars, lifeVars, iterVars>>

\* the components a_startComp <= c < a_endComp whose flag is set, ascending
LinearComps(a_startComp, a_endComp, a_compFlags) ==
  SelectSeq([i \in 1..(a_endComp - a_startComp) |-> a_startComp + i - 1],
            LAMBDA c : CompFlag(a_compFlags, c - a_startComp))

\* the n-th cell of a_region, direction 0 fastest
LinearCell(a_region, n) ==
  [d \in Dirs |->
     a_region.lo[d]
       + CASE d = 0 -> n % dimensions(a_region)[0]
           [] d = 1 -> (n \div dimensions(a_region)[0]) % dimensions(a_region)[1]
           [] OTHER -> n \div (dimensions(a_region)[0] * dimensions(a_region)[1])]

\* the element of the fab that goes with entry n (from 0) of the buffer
LinearElem(f, a_region, comps, n) ==
  BaseFabAt(f.fab, LinearCell(a_region, n % size(a_region)),
            comps[1 + n \div size(a_region)])

\* BaseFab::linearOut(a_buffer, a_region, a_startComp, a_endComp, a_compFlags)
HostLinearOut(a_region, a_startComp, a_endComp, a_compFlags) ==
  /\ ha_op.op = "BaseFab"
  /\ ha.fab.m_box.lo = CopyLo
  /\ a_startComp < a_endComp /\ a_endComp <= ha.fab.m_ncomp
  /\ \E comps \in {LinearComps(a_startComp, a_endComp, a_compFlags)} :
       ha' = [ha EXCEPT !.buf =
                [n \in 1..(Len(comps) * size(a_region)) |->
                   HostRead(ha.data, LinearElem(ha, a_region, comps, n - 1))]]
  /\ ha_op' = [NoHostOp EXCEPT !.op = "linearOut", !.a_dstBox = a_region,
                               !.a_dstComp = a_startComp,
                               !.a_endComp = a_endComp,
                               !.a_compFlags = a_compFlags]
  /\ UNCHANGED <<oldVars, lifeVars, iterVars>>

\* value of element k of the BaseFab linearIn is applied to
FreshVal(k) == 5000 + k

\* BaseFab::linearIn(a_buffer, a_region, a_startComp, a_endComp, a_compFlags)
\* with the arguments of the linearOut, on a BaseFab over a_box
HostLinearIn(a_box) ==
  /\ ha_op.op = "linearOut"
  /\ \E a_region \in {ha_op.a_dstBox} :
     \E comps \in {LinearComps(ha_op.a_dstComp, ha_op.a_endComp,
                                ha_op.a_compFlags)} :
     \E dst \in {HostFab(a_box, ha.fab.m_ncomp,
                          [k \in 0..(size(a_box) * ha.fab.m_ncomp - 1) |->
                             FreshVal(k)])} :
     \E W \in {{<<LinearElem(dst, a_region, comps, n - 1), ha.buf[n]>> :
                   n \in 1..(Len(comps) * size(a_region))}} :
       /\ ha' = [ha EXCEPT !.other = [fab |-> dst.fab,
                                      data |-> HostStore(dst.data, W)]]
       /\ ha_op' = [ha_op EXCEPT !.op = "linearIn", !.wr = {w[1] : w \in W}]
  /\ UNCHANGED <<oldVars, lifeVars, iterVars>>

\* a_compFlags: each choice of the first MaxNcomp flags, and all 31 set
CompFlagArgs == 0..(2 ^ MaxNcomp - 1) \cup {2147483647}

NextHost ==
  \/ /\ ha_op.op = "BaseFab"
     /\ \E a_iv \in AtPoints(ha.fab.m_box) :
          \E a_icomp \in 0..(ha.fab.m_ncomp - 1) : HostAt(a_iv, a_icomp)
  \/ /\ ha_op.op = "BaseFab" /\ ha.fab.m_box.lo = CopyLo
     /\ \E a_dstBox \in SubBoxes(ha.fab.m_box) :
       \E a_srcBox \in SubBoxes(CopySrcFab.fab.m_box) :
         \E a_dstComp \in 0..(MaxNcomp - 1), a_srcComp \in 0..(MaxNcomp - 1) :
           \E a_numComp \in 1..MaxNcomp : \E a_compFlags \in CompFlagArgs :
             HostCopy(a_dstBox, a_dstComp, a_srcBox, a_srcComp, a_numComp,
                      a_compFlags)
  \/ /\ ha_op.op = "BaseFab" /\ ha.fab.m_box.lo = CopyLo
     /\ \E a_region \in SubBoxes(ha.fab.m_box) :
          \E a_startComp \in 0..(MaxNcomp - 1), a_endComp \in 1..MaxNcomp :
            \E a_compFlags \in CompFlagArgs :
              HostLinearOut(a_region, a_startComp, a_endComp, a_compFlags)
  \/ /\ ha_op.op = "BaseFab"
     /\ \E T \in ElemTypes : \E sizeofName \in SizeofName :
          HostSizeBytes(T, sizeofName)
  \/ /\ ha_op.op = "linearOut"
     /\ \E a_box \in {ha.fab.m_box, ha_op.a_dstBox} : HostLinearIn(a_box)

SpecHost == InitHost /\ [][NextHost]_vars

----------------------------------------------------------------------------
\* SpecLife: the buffers of BaseFabs over constructions, define, moves and
\* destructions.  lf.st is where each object is in its life, lf.m_allocBy
\* and lf.m_data its members, lf.nNew the number of new[] so far (block b is
\* the b-th new[]), lf.nDel[b] the number of delete[] of block b.

\* the BaseFab objects of a run
Fabs == 1..NumFabs

\* a buffer of the caller, handed in as a_alias
AliasPtr == MaxAllocs + 1

\* enum class AllocBy
AllocBy == {"none", "array", "alias"}

InitLife ==
  /\ SlabIdle /\ AuxIdle /\ BoxIdle /\ FabIdle /\ CopyIdle
  /\ HostIdle /\ IterIdle
  /\ lf = [st        |-> [o \in Fabs |-> "unborn"],
           m_allocBy |-> [o \in Fabs |-> "none"],
           m_data    |-> [o \in Fabs |-> 0],
           nNew      |-> 0,
           nDel      |-> [b \in 1..AliasPtr |-> 0]]
  /\ lf_op = [op |-> "none", o |-> 0, ev |-> <<>>]

\* the delete[] of deallocate() on object o, as a sequence of events
deallocate_any(f, o) ==
  IF f.m_allocBy[o] # "none" THEN <<[ev |-> "delete[]", b |-> f.m_data[o]]>>
  ELSE <<>>

deallocate(f, o) ==
  IF f.m_allocBy[o] = "array" THEN <<[ev |-> "delete[]", b |-> f.m_data[o]]>>
  ELSE <<>>

\* the new[] of allocate(), or none when a_alias is given
allocate(f, a_alias) ==
  IF a_alias = 0 THEN <<[ev |-> "new[]", b |-> f.nNew + 1]>> ELSE <<>>

\* the heap after the events
LifeHeap(f, ev) ==
  [f EXCEPT !.nNew = @ + Cardinality({n \in DOMAIN ev : ev[n].ev = "new[]"}),
            !.nDel = [b \in DOMAIN @ |->
                        @[b] + Cardinality({n \in DOMAIN ev :
                                              /\ ev[n].ev = "delete[]"
                                              /\ ev[n].b = b})]]

\* define(a_box, a_ncomp, a_alias) on o, and the constructor with sizes
LifeDefine(o, a_alias) ==
  /\ lf.st[o] # "dead"
  /\ a_alias = 0 => lf.nNew < MaxAllocs
  /\ \E ev \in {deallocate(lf, o) \o allocate(lf, a_alias)} :
       /\ lf' = [LifeHeap(lf, ev) EXCEPT
                   !.st[o] = "alive",
                   !.m_allocBy[o] = IF a_alias = 0 THEN "array" ELSE "alias",
                   !.m_data[o] = IF a_alias = 0 THEN lf.nNew + 1 ELSE a_alias]
       /\ lf_op' = [op |-> IF lf.st[o] = "unborn" THEN "BaseFab(a_box, a_ncomp)"
                           ELSE "define", o |-> o, ev |-> ev]
  /\ UNCHANGED <<oldVars, hostVars, iterVars>>

\* BaseFab()
LifeDefault(o) ==
  /\ lf.st[o] = "unborn"
  /\ lf' = [lf EXCEPT !.st[o] = "alive"]
  /\ lf_op' = [op |-> "BaseFab()", o |-> o, ev |-> <<>>]
  /\ UNCHANGED <<oldVars, hostVars, iterVars>>

\* BaseFab(BaseFab&&) and operator=(BaseFab&&): o takes the buffer of a_from
LifeMove(o, a_from) ==
  /\ o # a_from
  /\ lf.st[o] # "dead" /\ lf.st[a_from] = "alive"
  /\ \E ev \in {deallocate(lf, o)} :
       /\ lf' = [LifeHeap(lf, ev) EXCEPT
                   !.st[o] = "alive",
                   !.m_allocBy = [@ EXCEPT ![o] = lf.m_allocBy[a_from],
                                           ![a_from] = "none"],
                   !.m_data = [@ EXCEPT ![o] = lf.m_data[a_from],
                                        ![a_from] = 0]]
       /\ lf_op' = [op |-> IF lf.st[o] = "unborn" THEN "BaseFab(BaseFab&&)"
                           ELSE "operator=(BaseFab&&)", o |-> o, ev |-> ev]
  /\ UNCHANGED <<oldVars, hostVars, iterVars>>

\* ~BaseFab()
LifeDestroy(o) ==
  /\ lf.st[o] = "alive"
  /\ \E ev \in {deallocate(lf, o)} :
       /\ lf' = [LifeHeap(lf, ev) EXCEPT !.st[o] = "dead",
                                         !.m_allocBy[o] = "none",
                                         !.m_data[o] = 0]
       /\ lf_op' = [op |-> "~BaseFab", o |-> o, ev |-> ev]
  /\ UNCHANGED <<oldVars, hostVars, iterVars>>

NextLife ==
  \/ \E o \in Fabs : \E a_alias \in {0, AliasPtr} : LifeDefine(o, a_alias)
  \/ \E o \in Fabs : LifeDefault(o)
  \/ \E o \in Fabs : \E a_from \in Fabs : LifeMove(o, a_from)
  \/ \E o \in Fabs : LifeDestroy(o)

SpecLife == InitLife /\ [][NextLife]_vars

----------------------------------------------------------------------------
\* SpecIter: a BoxIterator over a box.  it is the iterator (m_current,
\* m_box); it_op the last operation, the number of operator++ since the
\* construction and what ok() returns after it.

\* BoxIterator::ok
IterOk(i) ==
  /\ i.m_current[0] >= i.m_box.lo[0] /\ i.m_current[0] <= i.m_box.hi[0]
  /\ i.m_current[0] >= i.m_box.lo[0] /\ i.m_current[1] <= i.m_box.hi[1]
  /\ i.m_current[0] >= i.m_box.lo[0] /\ i.m_current[2] <= i.m_box.hi[2]

\* BoxIterator::operator++ (prefix), g_SpaceDim = 3
IterIncr(i) ==
  IF i.m_current[0] < i.m_box.hi[0]
  THEN [i EXCEPT !.m_current[0] = @ + 1]
  ELSE IF i.m_current[1] < i.m_box.hi[1]
  THEN [i EXCEPT !.m_current[0] = i.m_box.lo[0], !.m_current[1] = @ + 1]
  ELSE [i EXCEPT !.m_current[0] = i.m_box.lo[0],
                 !.m_current[1] = i.m_box.lo[1], !.m_current[2] = @ + 1]

\* the IntVects given to operator= and reached by operator+=: the box and
\* one cell around it
IterRange(box) == BoxPointsOf(grow(box, 1))

InitIter ==
  /\ SlabIdle /\ AuxIdle /\ BoxIdle /\ FabIdle /\ CopyIdle
  /\ HostIdle /\ LifeIdle
  /\ \E a_box \in LinBoxes :
       /\ it = [m_current |-> a_box.lo, m_box |-> a_box]
       /\ it_op = [op |-> "BoxIterator(a_box)", n |-> 0, ok |-> IterOk(it)]

\* ++it in the loop "for (BoxIterator it(a_box); it.ok(); ++it)"
IterNext ==
  /\ it_op.ok
  /\ it' = IterIncr(it)
  /\ it_op' = [op |-> IF it_op.op \in {"BoxIterator(a_box)", "++"}
                      THEN "++" ELSE "++ after =",
               n |-> it_op.n + 1, ok |-> IterOk(it')]
  /\ UNCHANGED <<oldVars, hostVars, lifeVars>>

\* it = a_iv
IterAssign(a_iv) ==
  /\ it' = [it EXCEPT !.m_current = a_iv]
  /\ it_op' = [op |-> "=", n |-> 0, ok |-> IterOk(it')]
  /\ UNCHANGED <<oldVars, hostVars, lifeVars>>

\* it += a_deltaiv
IterAdd(a_deltaiv) ==
  /\ [d \in Dirs |-> it.m_current[d] + a_deltaiv[d]] \in IterRange(it.m_box)
  /\ it' = [it EXCEPT !.m_current = [d \in Dirs |-> @[d] + a_deltaiv[d]]]
  /\ it_op' = [op |-> "+=", n |-> 0, ok |-> IterOk(it')]
  /\ UNCHANGED <<oldVars, hostVars, lifeVars>>

NextIter ==
  \/ IterNext
  \/ \E a_iv \in IterRange(it.m_box) : IterAssign(a_iv)
  \/ \E a_deltaiv \in [Dirs -> {-1, 0, 1}] : IterAdd(a_deltaiv)

SpecIter == InitIter /\ [][NextIter]_vars

(***************************************************************************)
(* Vocabulary of the properties                                            *)
(***************************************************************************)
Points(box) ==
  {IV(x, y, z) : x \in box.lo[0]..box.hi[0], y \in box.lo[1]..box.hi[1],
                 z \in box.lo[2]..box.hi[2]}

\* the points of the slab of index x along the normal direction
SlabPoints(f, x) == {p \in Points(f.m_box) : p[f.m_nrmDir] = x}

\* the components of the cache
Comps(f) == 0..(f.m_ncomp - 1)

\* SlabFab::operator()(a_iv, a_icomp) read from memory m
CacheAt(f, m, a_iv, a_icomp) == m[SlabAddr(f, a_iv, a_icomp)]

\* the preload range of define covered the whole box along the normal
FullyPreloaded ==
  /\ preload[1] <= BaseLo[fab.m_nrmDir]
  /\ preload[2] >= BaseLo[fab.m_nrmDir] + numSlab(fab) - 1

\* the last handler called loadSlab and returned
Loaded == status = "defined" /\ lastOp.kind \in {"define", "shiftLoad"}

\* the physical slab (value of m_pTable) an element offset belongs to
PhysSlab(f, a) ==
  linToVec(MkBox(ZeroVect, ZeroVect), a % f.m_size, f.m_stride)[f.m_nrmDir]

\* smallest q with q * b >= a
CeilDiv(a, b) == CHOOSE q \in 0..a : q * b >= a /\ (q - 1) * b < a

(***************************************************************************)
(* C1: after a define whose preload range covers the whole window, with    *)
(* a_compBegSrc = 0, the cache reads the source value at every point of    *)
(* the window and every component, whatever the normal direction.          *)
(***************************************************************************)
C1_DefineCoherent ==
  (/\ status = "defined" /\ lastOp.kind = "define"
   /\ FullyPreloaded /\ fab.m_compBegSrc = 0)
  => \A p \in Points(fab.m_box) : \A c \in Comps(fab) :
       CacheAt(fab, mem, p, c) = SrcAt(p, c)

(***************************************************************************)
(* C2: a shift(a_i, a_vecThrLS) with 0 < |a_i| < numSlab keeps every       *)
(* index of both windows on the same element, writes none of these         *)
(* elements, leaves their values, and writes into at most |a_i| slabs.     *)
(***************************************************************************)
C2_RetainedUntouched ==
  [][(/\ status = "defined" /\ status' = "defined"
      /\ lastOp'.kind = "shiftLoad"
      /\ abs(lastOp'.a_i) > 0 /\ abs(lastOp'.a_i) < numSlab(fab))
     => /\ \A p \in Points(fab.m_box) \cap Points(fab'.m_box) :
           \A c \in Comps(fab) :
             /\ SlabAddr(fab', p, c) = SlabAddr(fab, p, c)
             /\ \A w \in wlog' : w.addr # SlabAddr(fab, p, c)
             /\ CacheAt(fab', mem', p, c) = CacheAt(fab, mem, p, c)
        /\ Cardinality({PhysSlab(fab', w.addr) : w \in wlog'})
             <= abs(lastOp'.a_i)]_vars

C2_Witness ==
  /\ status = "defined" /\ lastOp.kind = "shiftLoad"
  /\ abs(lastOp.a_i) > 0 /\ abs(lastOp.a_i) < numSlab(fab)
  /\ wlog # {}

(***************************************************************************)
(* C3: from a fully preloaded define, after shift(a_i, a_vecThrLS) calls   *)
(* with 1 <= |a_i| <= numSlab, the cache reads the source value at every   *)
(* point of the current window.                                            *)
(***************************************************************************)
C3_Coherent ==
  (/\ status = "defined" /\ FullyPreloaded
   /\ lastOp.kind = "shiftLoad" /\ lastOp.a_i # 0)
  => \A p \in Points(fab.m_box) : \A c \in Comps(fab) :
       CacheAt(fab, mem, p, c) = SrcAt(p, fab.m_compBegSrc + c)

(***************************************************************************)
(* C4: shift(k, a_vecThrLS) followed by shift(-k, a_vecThrLS), for         *)
(* 1 <= |k| <= numSlab, restores the box, m_pTable and every element of    *)
(* the memory.  The second shift is shiftLoad applied to the state the     *)
(* first one produced.                                                     *)
(***************************************************************************)
RoundTripCase ==
  /\ status = "defined" /\ status' = "defined"
  /\ lastOp'.kind = "shiftLoad"
  /\ abs(lastOp'.a_i) >= 1 /\ abs(lastOp'.a_i) <= numSlab(fab)

RoundTripRestores ==
  \A r \in {shiftLoad(fab', mem', vecLS', -(lastOp'.a_i), blockDim)} :
    /\ r.ok
    /\ r.fab.m_box = fab.m_box
    /\ r.fab.m_pTable = fab.m_pTable
    /\ r.mem = mem

\* reloading any slab of the window would change no element
WindowLoaded(f, m, vecs) ==
  \A x \in f.m_box.lo[f.m_nrmDir]..f.m_box.hi[f.m_nrmDir] :
    \A t \in DOMAIN vecs :
      \A w \in loadSlab(f, VecAt(f, vecs, t, x), 0, t) : m[w[1]] = w[2]

C4_RoundTripAnyState == [][RoundTripCase => RoundTripRestores]_vars

\* C4 as amended: the same, when before the first shift every slab of the
\* window holds what loadSlab copies into it
C4_RoundTrip ==
  [][(RoundTripCase /\ WindowLoaded(fab, mem, vecLS))
     => RoundTripRestores]_vars

C4_Witness ==
  /\ status = "defined" /\ lastOp.kind = "shiftLoad"
  /\ abs(lastOp.a_i) >= 1 /\ abs(lastOp.a_i) <= numSlab(fab)
  /\ WindowLoaded(fab, mem, vecLS)
  /\ fab.m_box.lo = BaseLo
  /\ fab.m_pTable = [i \in 0..(MxSz - 1) |-> i]

(***************************************************************************)
(* C6: in every loadSlab call of define and shift(a_i, a_vecThrLS), each   *)
(* element of the slab (point, component copied) is written by exactly     *)
(* one thread and no element is written by two threads.                    *)
(***************************************************************************)
LoadComps(f) == f.m_compBegSrc..(f.m_compBegSrc + f.m_ncomp - 1)

C6_OneThreadPerCell ==
  Loaded =>
    /\ \A x \in lastOp.beg..lastOp.end :
         \A p \in SlabPoints(fab, x) : \A c \in LoadComps(fab) :
           Cardinality({t \in Threads :
                          \E w \in wlog : /\ w.x = x /\ w.t = t
                                          /\ w.addr = SlabAddr(fab, p, c)}) = 1
    /\ \A w1, w2 \in wlog : w1.addr = w2.addr => w1.t = w2.t

(***************************************************************************)
(* C7: after a loadSlab for index x, every point a thread copied holds,    *)
(* in cache component c, the source component a_compBegSrc + c, for all    *)
(* numComponents components and every a_compBegSrc.                        *)
(***************************************************************************)
C7_AllComponents ==
  Loaded =>
    \A x \in lastOp.beg..lastOp.end : \A t \in Threads :
      LoadActive(fab, t, 0) =>
        \A c \in Comps(fab) :
          CacheAt(fab, mem, VecAt(fab, vecLS, t, x), c)
            = SrcAt(VecAt(fab, vecLS, t, x), fab.m_compBegSrc + c)

(***************************************************************************)
(* C9: the amount shift(a_i) adds to a table entry, a_i # 0, is            *)
(* a_i + ceil(|a_i| / numSlab) * numSlab and is not negative; each of the  *)
(* first numSlab entries becomes (old entry + a_i) mod numSlab.            *)
(***************************************************************************)
C9_Normalized ==
  [][(/\ status = "defined" /\ status' = "defined"
      /\ lastOp'.kind \in {"shift", "shiftLoad"} /\ lastOp'.a_i # 0)
     => /\ normalizedN(lastOp'.a_i, numSlab(fab))
             = lastOp'.a_i
               + CeilDiv(abs(lastOp'.a_i), numSlab(fab)) * numSlab(fab)
        /\ normalizedN(lastOp'.a_i, numSlab(fab)) >= 0
        /\ \A j \in 0..(numSlab(fab) - 1) :
             /\ fab'.m_pTable[j]
                  = (fab.m_pTable[j] + lastOp'.a_i) % numSlab(fab)
             /\ fab'.m_pTable[j] \in 0..(numSlab(fab) - 1)]_vars

C9_Witness ==
  /\ status = "defined" /\ lastOp.kind = "shift"
  /\ lastOp.a_i < 0 /\ abs(lastOp.a_i) > numSlab(fab)
  /\ fab.m_pTable # [i \in 0..(MxSz - 1) |-> i]

(***************************************************************************)
(* C10: shift(0) and shift(0, a_vecThrLS) change nothing: box, m_pTable,   *)
(* m_data, the thread vectors and the memory stay, no loadSlab is called.  *)
(***************************************************************************)
C10_ZeroShift ==
  [][(lastOp'.kind \in {"shift", "shiftLoad"} /\ lastOp'.a_i = 0)
     => /\ fab' = fab /\ mem' = mem /\ vecLS' = vecLS /\ status' = status
        /\ wlog' = {} /\ lastOp'.beg > lastOp'.end]_vars

C10_Witness ==
  /\ status = "defined" /\ lastOp.kind = "shiftLoad" /\ lastOp.a_i = 0
  /\ fab.m_box.lo # BaseLo

(***************************************************************************)
(* C5: for every box with lo <= hi and every linear index n of the box,    *)
(* vecToLin0(linToVec(n, stride), stride) = n, lo at the origin or not.    *)
(***************************************************************************)
C5_RoundTripExact == b_pc = "lin" => b_back = b_lin

\* C5 as amended: the round trip gives n less the offset of the box
\* (getOffset); linToVec gives a point of the box
C5_RoundTrip ==
  /\ b_pc = "lin" => b_back + getOffset(b_box, getStride(b_box)) = b_lin
  /\ b_pc # "in" => contains(b_box, b_vec)

C5_Witness ==
  /\ b_pc = "lin"
  /\ b_box.lo = IV(2, -1, 2)
  /\ b_lin = size(b_box) - 1
  /\ b_lin > 4
  /\ b_back # b_lin

(***************************************************************************)
(* C8: whatever the interleaving of the threads of a block running define  *)
(* and then shifts, no thread reads or writes m_box or an entry of         *)
(* m_pTable that another thread writes without a __syncthreads() between   *)
(* the two accesses; m_box is written by thread 0 only, and m_pTable[j] by *)
(* thread j only, but for thread 0 filling the table in define.            *)
(***************************************************************************)
C8_NoRace ==
  /\ \A x \in acc : \A y \in acc :
       (x.loc = y.loc /\ x.thr # y.thr) => (~x.w /\ ~y.w)
  /\ \A x \in acc :
       x.w => IF x.loc = BoxLoc THEN x.thr = 0
              ELSE \/ x.loc = TabLoc(x.thr)
                   \/ (x.thr = 0 /\ x.op = "define")

\* in the loads of a shift, a thread reads a table entry another thread
\* rotated, while a third call was made after define
C8_Witness ==
  /\ Len(calls) = 3
  /\ calls[2].a_i # 0
  /\ \E x \in acc :
       /\ x.op = "shiftLoad" /\ ~x.w
       /\ x.loc[1] = "m_pTable" /\ x.loc[2] # x.thr
  /\ \E t \in ThrIds : t_ci[t] = 3

(***************************************************************************)
(* C11: every shift(a_i, a_vecThrLS) with a_i # 0, |a_i| > numSlab         *)
(* included, calls loadSlab once for each index the move newly exposes     *)
(* and for no other, every index passed being within the bounds of the     *)
(* shifted box along the normal direction, so that no CH_assert of         *)
(* loadSlab fails.                                                         *)
(***************************************************************************)
NrmRange(box, nd) == box.lo[nd]..box.hi[nd]

C11_LoadsExposed ==
  [][(/\ status = "defined"
      /\ lastOp'.kind = "shiftLoad" /\ lastOp'.a_i # 0)
     => \A nb \in {BoxShift(fab.m_box, lastOp'.a_i, fab.m_nrmDir)} :
          /\ status' = "defined"
          /\ lastOp'.beg..lastOp'.end
               = NrmRange(nb, fab.m_nrmDir) \ NrmRange(fab.m_box, fab.m_nrmDir)
          /\ \A x \in lastOp'.beg..lastOp'.end :
               x \in NrmRange(nb, fab.m_nrmDir)]_vars

(***************************************************************************)
(* C17: for every box and a_i >= 0, grow(a_i) followed by grow(-a_i) gives *)
(* back lo and hi; so does grow(a_i, a_dir) followed by grow(-a_i, a_dir), *)
(* and grow(a_i, a_dir) leaves the bounds of the other directions.         *)
(***************************************************************************)
C17_GrowRoundTrip ==
  [][/\ (bx_op'.op = "grow" /\ bx_op'.n >= 0)
          => /\ grow(bx', -(bx_op'.n)) = bx
             /\ \A d \in Dirs : /\ bx'.lo[d] = bx.lo[d] - bx_op'.n
                                /\ bx'.hi[d] = bx.hi[d] + bx_op'.n
     /\ (bx_op'.op = "growDir" /\ bx_op'.n >= 0)
          => /\ growDir(bx', -(bx_op'.n), bx_op'.dir) = bx
             /\ \A d \in Dirs \ {bx_op'.dir} :
                  bx'.lo[d] = bx.lo[d] /\ bx'.hi[d] = bx.hi[d]
             /\ bx'.lo[bx_op'.dir] = bx.lo[bx_op'.dir] - bx_op'.n
             /\ bx'.hi[bx_op'.dir] = bx.hi[bx_op'.dir] + bx_op'.n]_vars

C17_Witness ==
  /\ bx_op.op = "growDir" /\ bx_op.n = 2 /\ bx_op.dir = 1
  /\ bx.lo = IV(2, -3, -1) /\ bx.hi = IV(3, 2, -1)

(***************************************************************************)
(* C18: adjBox(a_ncell, a_dir, a_side) gives, for every integer a_ncell    *)
(* (positive, negative, zero), a box of |a_ncell| cells in a_dir with the  *)
(* other directions unchanged: for a_ncell > 0 the cells just outside the  *)
(* low (a_side <= 0) or high (a_side > 0) face, for a_ncell < 0 the        *)
(* |a_ncell| cells just inside that face.                                  *)
(***************************************************************************)
AdjBoxPlaced(old, new, n, dir, side) ==
  /\ new.hi[dir] - new.lo[dir] + 1 = abs(n)
  /\ \A d \in Dirs \ {dir} : new.lo[d] = old.lo[d] /\ new.hi[d] = old.hi[d]
  /\ (n > 0 /\ side <= 0) => new.hi[dir] = old.lo[dir] - 1
  /\ (n > 0 /\ side > 0) => new.lo[dir] = old.hi[dir] + 1
  /\ (n < 0 /\ side <= 0) => new.lo[dir] = old.lo[dir]
  /\ (n < 0 /\ side > 0) => new.hi[dir] = old.hi[dir]

C18_AdjBoxThick ==
  [][bx_op'.op = "adjBox"
       => AdjBoxPlaced(bx, bx', bx_op'.n, bx_op'.dir, bx_op'.side)]_vars

(***************************************************************************)
(* C19: after b &= a_box, b is the componentwise intersection: it contains *)
(* a point exactly when b before and a_box both contain it, the result is  *)
(* the same with the operands exchanged, and isEmpty() holds exactly when  *)
(* the operands share no point.                                            *)
(***************************************************************************)
\* every point of every box of LinBoxes
BoxPoints == [Dirs -> (-1)..(1 + LinExt)]

C19_Intersection ==
  [][bx_op'.op = "operator&="
       => /\ \A p \in BoxPoints :
               contains(bx', p) <=> (contains(bx, p) /\ contains(bx_op'.other, p))
          /\ bx' = BoxAndEq(bx_op'.other, bx)
          /\ isEmpty(bx') <=> ~ \E p \in BoxPoints :
                                 contains(bx, p) /\ contains(bx_op'.other, p)]_vars

C19_Witness ==
  /\ bx_op.op = "operator&="
  /\ bx_op.other = MkBox(IV(-1, 0, 2), IV(0, 1, 3))
  /\ bx = MkBox(IV(0, 0, 2), IV(0, 1, 2))

(***************************************************************************)
(* C20: a Box made by the default constructor is empty, hi < lo in some    *)
(* direction, in every build.                                              *)
(***************************************************************************)
C20_DefaultEmpty == bx_op.op = "Box()" => isEmpty(bx)

(***************************************************************************)
(* C15: define selects the loader from blockDim.x, a_numThrLS and          *)
(* m_numPntSlab: -3 (sizes optimized) whenever blockDim.x equals           *)
(* m_numPntSlab, -2 (sufficient threads) whenever blockDim.x exceeds it;   *)
(* m_numSubBox is set by define only and shift(a_i, a_vecThrLS) with its   *)
(* loadSlab calls leaves it.                                               *)
(* C15_SelectAnyCount states the selection for every a_numThrLS <=         *)
(* blockDim.x; C15_Select for m_numPntSlab <= a_numThrLS <= blockDim.x,    *)
(* with no loader selected and define stopped below that.                  *)
(***************************************************************************)
Selected(f, bd) ==
  /\ bd = f.m_numPntSlab => f.m_numSubBox = -3
  /\ bd > f.m_numPntSlab => f.m_numSubBox = -2

C12_ShiftView ==
  [][cf_op'.op = "shift"
       => /\ \A p \in BoxPointsOf(cf.m_box) : \A c \in 0..(cf.m_ncomp - 1) :
               /\ contains(cf'.m_box, [p EXCEPT ![cf_op'.a_dir] = @ + cf_op'.a_i])
               /\ CudaFabAt(cf', [p EXCEPT ![cf_op'.a_dir] = @ + cf_op'.a_i], c)
                    = CudaFabAt(cf, p, c)
          /\ cf'.m_box = BoxShift(cf.m_box, cf_op'.a_i, cf_op'.a_dir)
          /\ cf'.m_stride = cf.m_stride
          /\ cf'.m_size = cf.m_size
          /\ cf'.m_ncomp = cf.m_ncomp
          /\ CudaFabShift(cf', -(cf_op'.a_i), cf_op'.a_dir) = cf]_vars

C12_Witness ==
  /\ cf_op.op = "shift" /\ cf_op.a_i = -2 /\ cf_op.a_dir = 1
  /\ cf_op.host.m_box = MkBox(IV(2, -1, 0), IV(3, 0, 0))
  /\ cf.m_box = MkBox(IV(2, -3, 0), IV(3, -2, 0))
  /\ cf_op.host.m_ncomp = 2

(***************************************************************************)
(* C13: a CudaFab built from the BaseFabData of a BaseFab, or from its     *)
(* device pointer, box and number of components, indexes as the BaseFab    *)
(* does: operator()(a_iv, a_icomp) is the element at a_icomp * box.size()  *)
(* + BaseFab::index(a_iv) from the pointer, inside [0, size * ncomp), for  *)
(* every point of the box and every component, low corners # 0 included.   *)
(***************************************************************************)
C13_SameIndexing ==
  cf_op.op \in {"define(a_alias, a_box, a_ncomp)", "define(a_baseFab)"}
    => \A p \in BoxPointsOf(cf_op.host.m_box) :
         \A c \in 0..(cf_op.host.m_ncomp - 1) :
           /\ contains(cf.m_box, p)
           /\ CudaFabAt(cf, p, c) - cf_op.host.device
                = c * size(cf_op.host.m_box) + BaseFabIndex(cf_op.host, p)
           /\ CudaFabAt(cf, p, c) - cf_op.host.device
                = BaseFabAt(cf_op.host, p, c)
           /\ BaseFabAt(cf_op.host, p, c) >= 0
           /\ BaseFabAt(cf_op.host, p, c)
                < size(cf_op.host.m_box) * cf_op.host.m_ncomp

C13_Witness ==
  /\ cf_op.op = "define(a_baseFab)"
  /\ cf_op.host.m_box = MkBox(IV(2, 2, -1), IV(3, 3, 0))
  /\ cf_op.host.m_ncomp = 2
  /\ cf.m_data = 3 - 2
  /\ CudaFabAt(cf, IV(3, 3, 0), 1) = 3 + 15

(***************************************************************************)
(* C16: the strides set by CudaFab::setStride and those Box::getStride     *)
(* gives for the box satisfy stride[0] = 1 and stride[k] = stride[k-1] *   *)
(* extent(k-1), and m_size = stride[2] * extent(2) = box.size().           *)
(***************************************************************************)
StrideRule(st, box) ==
  /\ st[0] = 1
  /\ \A k \in 1..(g_SpaceDim - 1) : st[k] = st[k - 1] * dimensions(box)[k - 1]

C16_Strides ==
  cf_op.op = "define(a_alias, a_box, a_ncomp)"
    => /\ StrideRule(cf.m_stride, cf.m_box)
       /\ StrideRule(getStride(cf.m_box), cf.m_box)
       /\ cf.m_size = cf.m_stride[g_SpaceDim - 1]
                        * dimensions(cf.m_box)[g_SpaceDim - 1]
       /\ cf.m_size = size(cf.m_box)

C16_Witness ==
  /\ cf_op.op = "define(a_alias, a_box, a_ncomp)"
  /\ cf.m_box = MkBox(IV(-1, 2, 0), IV(0, 2, 1))
  /\ cf.m_stride = IV(1, 2, 2)
  /\ cf.m_size = 4

(***************************************************************************)
(* C14: after define(a_cudaFab, a_idxThr0, a_numThr) by all threads and    *)
(* the barrier, every word of the destination equals the word of the       *)
(* source, and word w was stored by exactly one thread, a_idxThr0 + w.     *)
(* C14_CopyAnyOrigin states it for a_idxThr0 >= 0 and numThrCopy() <=      *)
(* a_numThr <= blockDim.x; C14_Copy also requires a_idxThr0 + numThrCopy() *)
(* <= blockDim.x, the threads of the copy being threads of the block.      *)
(***************************************************************************)
CopyDone == \A t \in CopyThreads : cw_pc[t] = "after"

CopiedByOne ==
  \A w \in Words : cw[w] = cw_arg.src[w] /\ cw_wr[w] = {cw_arg.a_idxThr0 + w}

CopyPre ==
  /\ cw_arg.a_idxThr0 >= 0
  /\ numThrCopy <= cw_arg.a_numThr
  /\ cw_arg.a_numThr <= cw_arg.blockDim

C14_CopyAnyOrigin == (CopyDone /\ CopyPre) => CopiedByOne

C14_Copy ==
  /\ (CopyDone /\ CopyPre /\ cw_arg.a_idxThr0 + numThrCopy <= cw_arg.blockDim)
       => CopiedByOne
  /\ \A w \in DOMAIN cw_wr : cw_wr[w] \subseteq {cw_arg.a_idxThr0 + w}

C14_Witness ==
  /\ CopyDone
  /\ cw_arg.a_idxThr0 = 1 /\ cw_arg.blockDim = numThrCopy + 1
  /\ cw_arg.a_numThr = numThrCopy
  /\ cw = CudaFabWords(CopySrc, 77)

(***************************************************************************)
(* C21: BaseFab::operator()(a_iv, a_icomp) is the element at a_icomp *     *)
(* box.size() + index(a_iv), index the linearisation of a_iv - lo with     *)
(* direction 0 fastest; in the 4 x 4 x 4 array over (0,0,0)..(3,3,3) with  *)
(* one component holding 0..63, the element at ((2,1,0), 0) is 6; distinct *)
(* (a_iv, a_icomp) in the box are distinct elements in [0, size * ncomp).  *)
(***************************************************************************)
\* position of a_iv in the box, direction 0 fastest
Lin0Fastest(box, a_iv) ==
  (a_iv[0] - box.lo[0])
    + dimensions(box)[0]
        * ((a_iv[1] - box.lo[1])
             + dimensions(box)[1] * (a_iv[2] - box.lo[2]))

C21_AtOffset ==
  ha_op.op = "at"
    => /\ ha_op.off = ha_op.a_icomp * size(ha.fab.m_box)
                        + Lin0Fastest(ha.fab.m_box, ha_op.a_iv)
       /\ ha_op.off >= 0
       /\ ha_op.off < size(ha.fab.m_box) * ha.fab.m_ncomp
       /\ ha_op.val = ha_op.off
       /\ (ha.fab.m_box = Box444 /\ ha.fab.m_ncomp = 1
             /\ ha_op.a_iv = IV(2, 1, 0) /\ ha_op.a_icomp = 0)
            => ha_op.val = 6
       /\ \A q \in BoxPointsOf(ha.fab.m_box) :
            \A d \in 0..(ha.fab.m_ncomp - 1) :
              (q # ha_op.a_iv \/ d # ha_op.a_icomp)
                => BaseFabAt(ha.fab, q, d) # ha_op.off

C21_Witness ==
  /\ ha_op.op = "at"
  /\ ha.fab.m_box = Box444 /\ ha.fab.m_ncomp = 1
  /\ ha_op.a_iv = IV(2, 1, 0) /\ ha_op.a_icomp = 0
  /\ ha_op.val = 6


\* offset of element (a_iv, a_icomp) of a BaseFab over box: components
\* outermost, axis 0 fastest
ElemOff(box, a_iv, a_icomp) == a_icomp * size(box) + Lin0Fastest(box, a_iv)

\* the cells of a_dstBox that have a cell of a_srcBox under them when the
\* low corners of the two boxes are laid on each other
CopyOverlap(a_dstBox, a_srcBox) ==
  {p \in BoxPointsOf(a_dstBox) :
     \A d \in Dirs : p[d] - a_dstBox.lo[d] + a_srcBox.lo[d] <= a_srcBox.hi[d]}

\* the cells and components a copy is to write
CopyCells(o) ==
  {<<p, o.a_dstComp + i>> :
     p \in CopyOverlap(o.a_dstBox, o.a_srcBox),
     i \in {j \in 0..(o.a_numComp - 1) : CompFlag(o.a_compFlags, j)}}

\* C22: BaseFab::copy with a component mask writes exactly the cells
\* (p, a_dstComp + i) with p in the overlap of a_dstBox and a_srcBox and bit i
\* of the mask set, i in [0, a_numComp), each with the translated source
\* value; every other element of the destination and the whole source keep
\* their values.
C22_CopyFrame ==
  [][ha_op'.op = "copy" =>
       \E o \in {ha_op'} : \E box \in {ha.fab.m_box} :
         /\ ha'.fab = ha.fab
         /\ ha'.other.data = CopySrcFab.data
         /\ ha'.other.fab = CopySrcFab.fab
         /\ o.wr = {ElemOff(box, pc[1], pc[2]) : pc \in CopyCells(o)}
         /\ \A p \in BoxPointsOf(box) : \A c \in 0..(ha.fab.m_ncomp - 1) :
              ha'.data[ElemOff(box, p, c)] =
                IF <<p, c>> \in CopyCells(o)
                THEN CopySrcFab.data[
                       ElemOff(CopySrcFab.fab.m_box,
                               [d \in Dirs |-> p[d] - o.a_dstBox.lo[d]
                                                 + o.a_srcBox.lo[d]],
                               c - o.a_dstComp + o.a_srcComp)]
                ELSE ha.data[ElemOff(box, p, c)]]_vars

\* a copy of two components with only the second one flagged, between boxes
\* of different shapes and different low corners, into a BaseFab larger than
\* a_dstBox
C22_Witness ==
  /\ ha_op.op = "copy" /\ ha_op.a_compFlags = 2 /\ ha_op.a_numComp = 2
  /\ dimensions(ha_op.a_dstBox) = IV(2, 1, 2)
  /\ dimensions(ha_op.a_srcBox) = IV(1, 2, 2)
  /\ ha_op.a_dstBox.lo = IV(-1, 1, 2) /\ ha_op.a_srcBox.lo = IV(2, -2, 0)
  /\ ha.fab.m_box = MkBox(CopyLo, IV(0, 1, 3))
  /\ Cardinality(ha_op.wr) = 2
  /\ ha.data[ElemOff(ha.fab.m_box, IV(-1, 1, 3), 1)] = 1000 + 8 + 1 + 4
  /\ ha.data[ElemOff(ha.fab.m_box, IV(-1, 1, 3), 0)]
       = ElemOff(ha.fab.m_box, IV(-1, 1, 3), 0)
  /\ ha.data[ElemOff(ha.fab.m_box, IV(0, 1, 3), 1)]
       = ElemOff(ha.fab.m_box, IV(0, 1, 3), 1)


\* C23: linearOut followed by linearIn with the same arguments into a fresh
\* destination leaves the destination equal to the source on every flagged
\* component of every cell of the region and unchanged elsewhere; the buffer
\* holds the flagged components one after the other, each with the cells of
\* the region in direction-0-fastest order.
C23_LinearRoundTrip ==
  ha_op.op = "linearIn" =>
    \E R \in {ha_op.a_dstBox} : \E box \in {ha.fab.m_box} :
    \E dbox \in {ha.other.fab.m_box} :
    \E comps \in {{c \in ha_op.a_dstComp..(ha_op.a_endComp - 1) :
                     CompFlag(ha_op.a_compFlags, c - ha_op.a_dstComp)}} :
      /\ Len(ha.buf) = Cardinality(comps) * size(R)
      /\ \A p \in BoxPointsOf(R) : \A c \in comps :
           ha.buf[1 + Cardinality({e \in comps : e < c}) * size(R)
                    + Lin0Fastest(R, p)] = ha.data[ElemOff(box, p, c)]
      /\ \A p \in BoxPointsOf(dbox) : \A c \in 0..(ha.fab.m_ncomp - 1) :
           ha.other.data[ElemOff(dbox, p, c)] =
             IF contains(R, p) /\ c \in comps
             THEN ha.data[ElemOff(box, p, c)]
             ELSE FreshVal(ElemOff(dbox, p, c))
      /\ ha_op.wr = {ElemOff(dbox, p, c) : p \in BoxPointsOf(R), c \in comps}

\* a round trip of the second of two components over a 1 x 2 x 2 region
\* inside a 2 x 2 x 2 source, read back into a BaseFab over the same box
C23_Witness ==
  /\ ha_op.op = "linearIn" /\ ha_op.a_compFlags = 2
  /\ ha_op.a_dstComp = 0 /\ ha_op.a_endComp = 2
  /\ ha.fab.m_box = MkBox(CopyLo, IV(0, 1, 3))
  /\ ha.other.fab.m_box = ha.fab.m_box
  /\ ha_op.a_dstBox = MkBox(IV(0, 0, 2), IV(0, 1, 3))
  /\ ha.buf = <<9, 11, 13, 15>>
  /\ ha.other.data[15] = 15 /\ ha.other.data[14] = FreshVal(14)
  /\ ha.other.data[7] = FreshVal(7)


\* the live objects that hold block b as their own
LifeOwners(b) ==
  {o \in Fabs : /\ lf.st[o] = "alive" /\ lf.m_allocBy[o] = "array"
                /\ lf.m_data[o] = b}

CacheBuffer(f) == 0..(f.m_size * f.m_ncomp - 1)

\* C26: after define and any shifts, every (p, c) with p in the window and
\* c in [0, a_ncomp) addresses an element of the buffer handed to define,
\* distinct (p, c) address distinct elements, and every write of loadSlab,
\* whatever a_compBegSrc, is to an element of that buffer.
C26_InsideBuffer ==
  status = "defined" =>
    /\ \A p \in BoxPointsOf(fab.m_box) : \A c \in 0..(fab.m_ncomp - 1) :
         /\ SlabAddr(fab, p, c) \in CacheBuffer(fab)
         /\ \A q \in BoxPointsOf(fab.m_box) : \A d \in 0..(fab.m_ncomp - 1) :
              SlabAddr(fab, p, c) = SlabAddr(fab, q, d) => p = q /\ c = d
    /\ \A w \in wlog : w.addr \in CacheBuffer(fab)


\* C27: after define and any shift(a_i), a_i # 0, by a block of at least
\* numSlab threads, the first numSlab entries of m_pTable are the identity
\* rotated by one amount s (m_pTable[j] = (j + s) mod numSlab) and the
\* entries numSlab..MxSz-1 are still the identity.
C27_Rotation ==
  status = "defined" =>
    /\ blockDim >= numSlab(fab)
    /\ \E s \in 0..(numSlab(fab) - 1) :
         \A j \in 0..(numSlab(fab) - 1) :
           fab.m_pTable[j] = (j + s) % numSlab(fab)
    /\ \A j \in numSlab(fab)..(MxSz - 1) : fab.m_pTable[j] = j

\* a window of two slabs in a table of MxSz entries after shift(-3)
C27_Witness ==
  /\ status = "defined" /\ lastOp.kind = "shift" /\ lastOp.a_i = -3
  /\ numSlab(fab) = 2 /\ numSlab(fab) < MxSz
  /\ fab.m_pTable[0] = 1 /\ fab.m_pTable[1] = 0
  /\ fab.m_pTable[MxSz - 1] = MxSz - 1


\* C28: CudaFab::dataPtr(a_icomp) is the address of element (lo, a_icomp) of
\* the box, which is a_icomp * size elements after the start of the buffer,
\* for every box, lo # 0 included, and every a_icomp in [0, a_ncomp).
C28_DataPtr ==
  cf_op.op = "dataPtr" =>
    /\ cf_op.ptr = CudaFabAt(cf, cf.m_box.lo, cf_op.a_icomp)
    /\ cf_op.ptr = cf_op.host.device + cf_op.a_icomp * size(cf.m_box)


\* C29: BaseFab<T>::sizeBytes() is size() times the number of bytes of one
\* T, for every element type T, and equals sizeBytes() of the CudaFab<T>
\* over the same box and components.
C29_SizeBytes ==
  ha_op.op = "sizeBytes" =>
    /\ ha_op.bytes = size(ha.fab.m_box) * ha.fab.m_ncomp * SizeofT(ha_op.T)
    /\ ha_op.bytes = ha_op.cudaBytes


\* C30: a BoxIterator constructed on a box and advanced by ++ is, after n
\* increments, n < size, at the n-th cell of the box in direction-0-fastest
\* order with ok() true, and ok() is false after the size-th increment; and
\* wherever operator= or operator+= put the iterator, ok() is true exactly
\* when the box contains the current IntVect.
C30_Iterates ==
  it # <<>> =>
    /\ it_op.op \in {"BoxIterator(a_box)", "++"} =>
         /\ it_op.n <= size(it.m_box)
         /\ it_op.n < size(it.m_box) =>
              /\ it_op.ok /\ contains(it.m_box, it.m_current)
              /\ Lin0Fastest(it.m_box, it.m_current) = it_op.n
         /\ it_op.n = size(it.m_box) => ~it_op.ok
    /\ it_op.ok <=> contains(it.m_box, it.m_current)

====
